---- MODULE Spec2Model ----
(***************************************************************************)
(* Hierarchical code indexing and hybrid retrieval of Task-Guide-MCP:      *)
(* HierarchicalRAG (hierarchy builder) and HybridSearch (record store,     *)
(* indexer, query engine).                                                 *)
(*                                                                         *)
(* Strings are sequences of character codes, so that hashing, base64,      *)
(* substring search and case folding are computed as the code computes     *)
(* them.  Scores are fixed-point integers (see SimScale, ScoreUnit).       *)
(***************************************************************************)
EXTENDS Integers, Sequences, FiniteSets, TLC

----------------------------------------------------------------------------
(* String helpers (JavaScript String methods)                               *)

None == "none"

RECURSIVE Concat(_)
\* Array.prototype.join('') of a sequence of strings
Concat(ss) == IF ss = <<>> THEN <<>> ELSE Head(ss) \o Concat(Tail(ss))

RECURSIVE Join(_, _)
\* Array.prototype.join(sep)
Join(ss, sep) ==
  IF ss = <<>> THEN <<>>
  ELSE IF Len(ss) = 1 THEN ss[1]
  ELSE ss[1] \o sep \o Join(Tail(ss), sep)

\* String.prototype.toLowerCase on ASCII
ToLower(s) == [i \in 1..Len(s) |-> IF s[i] >= 65 /\ s[i] <= 90 THEN s[i] + 32 ELSE s[i]]

\* t occurs in s at position i (1-based)
OccursAt(s, t, i) ==
  /\ i >= 1
  /\ i + Len(t) - 1 <= Len(s)
  /\ \A k \in 1..Len(t) : s[i + k - 1] = t[k]

\* String.prototype.includes
Includes(s, t) == \E i \in 1..(Len(s) - Len(t) + 1) : OccursAt(s, t, i)

\* String.prototype.endsWith
EndsWith(s, t) == Len(t) <= Len(s) /\ OccursAt(s, t, Len(s) - Len(t) + 1)

\* the last index of character c in s, 0 when absent
LastIndexOf(s, c) ==
  IF \E i \in 1..Len(s) : s[i] = c
  THEN CHOOSE i \in 1..Len(s) : s[i] = c /\ \A j \in (i+1)..Len(s) : s[j] # c
  ELSE 0

\* path.extname: from the last '.' of the base name, empty when there is none
\* or when the base name starts with it
ExtName(p) ==
  LET slash == LastIndexOf(p, 47)
      base  == SubSeq(p, slash + 1, Len(p))
      dot   == LastIndexOf(base, 46)
  IN IF dot <= 1 THEN <<>> ELSE SubSeq(base, dot, Len(base))

\* [A-Za-z0-9_], the \w class of a JavaScript regular expression
IsWordChar(c) ==
  \/ (c >= 48 /\ c <= 57)
  \/ (c >= 65 /\ c <= 90)
  \/ (c >= 97 /\ c <= 122)
  \/ c = 95

\* the \b assertion between positions i-1 and i of s (i in 1..Len(s)+1)
WordBoundary(s, i) ==
  LET before == i > 1 /\ IsWordChar(s[i - 1])
      after  == i <= Len(s) /\ IsWordChar(s[i])
  IN before # after

----------------------------------------------------------------------------
(* HierarchicalRAG.generateNodeId: base64 of the path with + / = removed    *)

B64Char(i) ==
  IF i < 26 THEN 65 + i
  ELSE IF i < 52 THEN 97 + (i - 26)
  ELSE IF i < 62 THEN 48 + (i - 52)
  ELSE IF i = 62 THEN 43 ELSE 47

RECURSIVE Base64(_)
Base64(b) ==
  IF Len(b) = 0 THEN <<>>
  ELSE IF Len(b) = 1 THEN
    << B64Char(b[1] \div 4), B64Char((b[1] % 4) * 16), 61, 61 >>
  ELSE IF Len(b) = 2 THEN
    << B64Char(b[1] \div 4), B64Char((b[1] % 4) * 16 + b[2] \div 16),
       B64Char((b[2] % 16) * 4), 61 >>
  ELSE
    << B64Char(b[1] \div 4), B64Char((b[1] % 4) * 16 + b[2] \div 16),
       B64Char((b[2] % 16) * 4 + b[3] \div 64), B64Char(b[3] % 64) >>
    \o Base64(SubSeq(b, 4, Len(b)))

generateNodeId(path) == SelectSeq(Base64(path), LAMBDA c : c \notin {43, 47, 61})

----------------------------------------------------------------------------
(* HybridSearch.simpleHash and generateEmbedding                            *)
(* A 32-bit integer is kept as two 16-bit limbs <<hi, lo>> of its unsigned  *)
(* value.                                                                   *)

Limb == 65536

\* hash = ((hash << 5) - hash) + char; hash = hash & hash
HashStep(h, c) ==
  LET lo == 31 * h[2] + c
      hi == 31 * h[1] + lo \div Limb
  IN << hi % Limb, lo % Limb >>

RECURSIVE HashFold(_, _)
HashFold(h, s) == IF s = <<>> THEN h ELSE HashFold(HashStep(h, Head(s)), Tail(s))

\* Math.abs of the signed value of limbs h, again as limbs
AbsLimbs(h) ==
  IF h[1] < 32768 THEN h
  ELSE IF h[2] = 0 THEN << Limb - h[1], 0 >>
  ELSE << Limb - 1 - h[1], Limb - h[2] >>

\* digit of Number.prototype.toString(36)
Digit36(d) == IF d < 10 THEN 48 + d ELSE 97 + (d - 10)

RECURSIVE ToString36(_)
ToString36(h) ==
  LET qh  == h[1] \div 36
      mid == (h[1] % 36) * Limb + h[2]
      q   == << qh, mid \div 36 >>
      r   == mid % 36
  IN IF q = <<0, 0>> THEN << Digit36(r) >>
     ELSE ToString36(q) \o << Digit36(r) >>

simpleHash(str) == ToString36(AbsLimbs(HashFold(<<0, 0>>, str)))

\* new Array(1536): the dimensionality of every embedding
EmbeddingDim == 1536

\* The embedding of text: component i is (charCode - 128) / 128 for the
\* characters of the hash and 0 beyond them.  Kept as the numerators of the
\* non-zero prefix; the zero tail and the common denominator 128 do not change
\* a cosine.
generateEmbedding(text) ==
  LET hash == simpleHash(text)
      n == IF Len(hash) < EmbeddingDim THEN Len(hash) ELSE EmbeddingDim
  IN [i \in 1..n |-> hash[i] - 128]

----------------------------------------------------------------------------
(* HybridSearch.calculateSimilarity: cosine similarity, in units of         *)
(* 1/SimScale                                                               *)

SimScale == 1000

Comp(e, i) == IF i <= Len(e) THEN e[i] ELSE 0

RECURSIVE Dot(_, _, _, _)
\* the sum of e1[k] * e2[k] for k in i..n
Dot(e1, e2, i, n) ==
  IF i > n THEN 0 ELSE Comp(e1, i) * Comp(e2, i) + Dot(e1, e2, i + 1, n)

RECURSIVE CeilSqrtIn(_, _, _)
\* least s in lo..hi with s*s >= n
CeilSqrtIn(n, lo, hi) ==
  IF lo >= hi THEN lo
  ELSE LET mid == (lo + hi) \div 2
       IN IF mid * mid >= n THEN CeilSqrtIn(n, lo, mid) ELSE CeilSqrtIn(n, mid + 1, hi)

CeilSqrt(n) == CeilSqrtIn(n, 0, 46340)

calculateSimilarity(e1, e2) ==
  LET m == IF Len(e1) > Len(e2) THEN Len(e1) ELSE Len(e2)
      dotProduct == Dot(e1, e2, 1, m)
      norm1 == Dot(e1, e1, 1, m)
      norm2 == Dot(e2, e2, 1, m)
  IN (SimScale * dotProduct) \div CeilSqrt(norm1 * norm2)

----------------------------------------------------------------------------
(* The file system the program runs on.  It does not change during a run.   *)
(* A file's text is given as its chunks: the code elements that the regular *)
(* expressions of extractCodeElements match in it, and the text between.    *)

S_a      == <<47, 97>>                     \* "/a"
S_b      == <<47, 98>>                     \* "/b"
S_m_ts   == <<109, 46, 116, 115>>          \* "m.ts"
S_n_js   == <<110, 46, 106, 115>>          \* "n.js"
S_r_txt  == <<114, 46, 116, 120, 116>>     \* "r.txt"
S_u      == <<117>>                        \* "u"
S_f      == <<102>>                        \* "f"
S_K      == <<75>>                         \* "K"
S_semi   == <<59>>                         \* ";"
S_fun_f  == <<102, 117, 110, 99, 116, 105, 111, 110, 32, 102, 40, 41, 123, 125>>
                                           \* "function f(){}"
S_cls_K  == <<99, 108, 97, 115, 115, 32, 75, 123, 125>>
                                           \* "class K{}"
S_x_md   == <<47, 120, 46, 109, 100>>      \* "/x.md"
S_y_md   == <<47, 121, 46, 109, 100>>      \* "/y.md"
S_z_bin  == <<47, 122, 46, 98, 105, 110>>  \* "/z.bin"
S_api    == <<35, 32, 97, 112, 105>>       \* "# api"
S_c      == <<47, 99>>                     \* "/c"
S_d      == <<47, 100>>                    \* "/d"
S_c_py   == <<99, 46, 112, 121>>           \* "c.py"
S_d_py   == <<100, 46, 112, 121>>          \* "d.py"
S_e      == <<47, 101>>                    \* "/e"
S_h      == <<47, 104>>                    \* "/h"
S_p      == <<112>>                        \* "p"

Slash == <<47>>

\* path.join(dirPath, name)
PathJoin(dirPath, name) == dirPath \o Slash \o name

Entry(name, isDir) == [name |-> name, isDirectory |-> isDir]
Chunk(kind, name, text) == [kind |-> kind, name |-> name, text |-> text]

\* directories: path -> [readable, entries in readdir order]
FsDirs ==
  (S_a :> [readable |-> TRUE,
           entries |-> << Entry(S_m_ts, FALSE), Entry(S_u, TRUE) >>]) @@
  (PathJoin(S_a, S_u) :> [readable |-> TRUE,
           entries |-> << Entry(S_n_js, FALSE) >>]) @@
  (S_b :> [readable |-> TRUE,
           entries |-> << Entry(S_r_txt, FALSE), Entry(S_m_ts, FALSE) >>]) @@
  (S_c :> [readable |-> TRUE, entries |-> << Entry(S_c_py, FALSE) >>]) @@
  (S_d :> [readable |-> TRUE, entries |-> << Entry(S_d_py, FALSE) >>]) @@
  \* /e holds a directory that cannot be read, before its siblings
  (S_e :> [readable |-> TRUE,
           entries |-> << Entry(S_p, TRUE), Entry(S_u, TRUE), Entry(S_m_ts, FALSE) >>]) @@
  (PathJoin(S_e, S_p) :> [readable |-> FALSE, entries |-> <<>>]) @@
  (PathJoin(S_e, S_u) :> [readable |-> TRUE, entries |-> << Entry(S_n_js, FALSE) >>]) @@
  \* /h holds a file that cannot be read and a file whose stat fails
  (S_h :> [readable |-> TRUE,
           entries |-> << Entry(S_n_js, FALSE), Entry(S_m_ts, FALSE), Entry(S_c_py, FALSE) >>])

\* files: path -> [statOk, readOk, chunks]
FsFiles ==
  (PathJoin(S_a, S_m_ts) :> [statOk |-> TRUE, readOk |-> TRUE,
      chunks |-> << Chunk("text", <<>>, S_semi), Chunk("function", S_f, S_fun_f) >>]) @@
  (PathJoin(PathJoin(S_a, S_u), S_n_js) :> [statOk |-> TRUE, readOk |-> TRUE,
      chunks |-> << Chunk("class", S_K, S_cls_K) >>]) @@
  (PathJoin(S_b, S_m_ts) :> [statOk |-> TRUE, readOk |-> TRUE,
      chunks |-> << Chunk("function", S_f, S_fun_f) >>]) @@
  (PathJoin(S_b, S_r_txt) :> [statOk |-> TRUE, readOk |-> TRUE,
      chunks |-> << Chunk("text", <<>>, S_api) >>]) @@
  (PathJoin(S_c, S_c_py) :> [statOk |-> TRUE, readOk |-> TRUE,
      chunks |-> << Chunk("text", <<>>, S_api) >>]) @@
  (PathJoin(S_d, S_d_py) :> [statOk |-> TRUE, readOk |-> TRUE,
      chunks |-> << Chunk("text", <<>>, S_semi) >>]) @@
  (S_x_md :> [statOk |-> TRUE, readOk |-> TRUE,
      chunks |-> << Chunk("text", <<>>, S_api) >>]) @@
  (S_y_md :> [statOk |-> TRUE, readOk |-> TRUE,
      chunks |-> << Chunk("text", <<>>, S_api) >>]) @@
  (S_z_bin :> [statOk |-> TRUE, readOk |-> TRUE,
      chunks |-> << Chunk("text", <<>>, S_semi) >>]) @@
  (PathJoin(S_e, S_m_ts) :> [statOk |-> TRUE, readOk |-> TRUE,
      chunks |-> << Chunk("function", S_f, S_fun_f) >>]) @@
  (PathJoin(PathJoin(S_e, S_u), S_n_js) :> [statOk |-> TRUE, readOk |-> TRUE,
      chunks |-> << Chunk("class", S_K, S_cls_K) >>]) @@
  (PathJoin(S_h, S_n_js) :> [statOk |-> TRUE, readOk |-> FALSE,
      chunks |-> << Chunk("text", <<>>, S_semi) >>]) @@
  (PathJoin(S_h, S_m_ts) :> [statOk |-> FALSE, readOk |-> FALSE,
      chunks |-> << Chunk("text", <<>>, S_semi) >>]) @@
  (PathJoin(S_h, S_c_py) :> [statOk |-> TRUE, readOk |-> TRUE,
      chunks |-> << Chunk("text", <<>>, S_api) >>]) @@
  \* /b/x.md is an empty document; there is no /a/x.md
  (S_b \o S_x_md :> [statOk |-> TRUE, readOk |-> TRUE, chunks |-> <<>>])

\* fs.readFile(path, 'utf-8') of a readable file
FileText(path) == Concat([i \in 1..Len(FsFiles[path].chunks) |-> FsFiles[path].chunks[i].text])

\* fs.readdir succeeds
CanReadDir(path) == path \in DOMAIN FsDirs /\ FsDirs[path].readable

\* fs.stat succeeds
CanStat(path) == path \in DOMAIN FsFiles /\ FsFiles[path].statOk

\* fs.readFile succeeds
CanReadFile(path) == path \in DOMAIN FsFiles /\ FsFiles[path].readOk

\* (await fs.stat(path)).size
FileSize(path) == Len(FileText(path))

----------------------------------------------------------------------------
(* HierarchicalRAG: the node map and the hierarchy build                    *)

\* an absent string (undefined parentId, content or language): every test of
\* the code on these fields is a truthiness test, which '' fails as well
NoStr == <<>>

S_typescript == <<116, 121, 112, 101, 115, 99, 114, 105, 112, 116>>
S_javascript == <<106, 97, 118, 97, 115, 99, 114, 105, 112, 116>>
S_unknown    == <<117, 110, 107, 110, 111, 119, 110>>

\* codeExtensions of isCodeFile
codeExtensions ==
  << <<46, 116, 115>>, <<46, 106, 115>>, <<46, 116, 115, 120>>, <<46, 106, 115, 120>>,
     <<46, 112, 121>>, <<46, 106, 97, 118, 97>>, <<46, 99, 112, 112>>, <<46, 99>>,
     <<46, 99, 115>>, <<46, 103, 111>>, <<46, 114, 115>>, <<46, 112, 104, 112>>,
     <<46, 114, 98>> >>

isCodeFile(filename) == \E i \in 1..Len(codeExtensions) : EndsWith(filename, codeExtensions[i])

\* languageMap of getLanguage
languageMap ==
  (<<46, 116, 115>> :> S_typescript) @@
  (<<46, 106, 115>> :> S_javascript) @@
  (<<46, 116, 115, 120>> :> S_typescript) @@
  (<<46, 106, 115, 120>> :> S_javascript) @@
  (<<46, 112, 121>> :> <<112, 121, 116, 104, 111, 110>>) @@
  (<<46, 106, 97, 118, 97>> :> <<106, 97, 118, 97>>) @@
  (<<46, 99, 112, 112>> :> <<99, 112, 112>>) @@
  (<<46, 99>> :> <<99>>) @@
  (<<46, 99, 115>> :> <<99, 115, 104, 97, 114, 112>>) @@
  (<<46, 103, 111>> :> <<103, 111>>) @@
  (<<46, 114, 115>> :> <<114, 117, 115, 116>>) @@
  (<<46, 112, 104, 112>> :> <<112, 104, 112>>) @@
  (<<46, 114, 98>> :> <<114, 117, 98, 121>>)

getLanguage(filename) ==
  LET extension == ExtName(filename)
  IN IF extension \in DOMAIN languageMap THEN languageMap[extension] ELSE S_unknown

RECURSIVE getDirectorySize(_)
RECURSIVE SizeFrom(_, _)
\* the sizes of the entries of dirPath from the i-th on, added up
SizeFrom(dirPath, i) ==
  LET es == FsDirs[dirPath].entries
      fullPath == PathJoin(dirPath, es[i].name)
  IN IF i > Len(es) THEN 0
     ELSE (IF es[i].isDirectory THEN getDirectorySize(fullPath) ELSE FileSize(fullPath))
          + SizeFrom(dirPath, i + 1)

\* the sum of the sizes below dirPath; 0 when anything below it fails
getDirectorySize(dirPath) ==
  IF ~CanReadDir(dirPath) THEN 0
  ELSE LET es == FsDirs[dirPath].entries
           full(i) == PathJoin(dirPath, es[i].name)
       IN IF \E i \in 1..Len(es) : ~es[i].isDirectory /\ ~CanStat(full(i)) THEN 0
          ELSE SizeFrom(dirPath, 1)

\* the words of complexityKeywords
complexityWords ==
  << <<105, 102>>, <<101, 108, 115, 101>>, <<102, 111, 114>>, <<119, 104, 105, 108, 101>>,
     <<115, 119, 105, 116, 99, 104>>, <<99, 97, 115, 101>>, <<99, 97, 116, 99, 104>>,
     <<38, 38>> >>

\* content.match(new RegExp(`\\b${keyword}\\b`, 'g')).length for a keyword
\* without regular-expression operators
CountWord(content, keyword) ==
  Cardinality({ i \in 1..Len(content) :
     /\ OccursAt(content, keyword, i)
     /\ WordBoundary(content, i)
     /\ WordBoundary(content, i + Len(keyword)) })

\* The keyword '||' is not escaped: \b||\b is an alternation with an empty
\* branch, which matches (the empty string) at every position of content.
CountPipes(content) == Len(content) + 1

RECURSIVE CountWordsFrom(_, _)
\* the matches of the k-th and the later words of complexityWords, added up
CountWordsFrom(content, k) ==
  IF k > Len(complexityWords) THEN 0
  ELSE CountWord(content, complexityWords[k]) + CountWordsFrom(content, k + 1)

calculateComplexity(content) ==
  1 + CountWordsFrom(content, 1) + CountPipes(content)

\* the elements of a file's text: functions, then classes, then interfaces
extractCodeElements(chunks, language) ==
  IF language = S_typescript \/ language = S_javascript
  THEN SelectSeq(chunks, LAMBDA c : c.kind = "function")
       \o SelectSeq(chunks, LAMBDA c : c.kind = "class")
       \o SelectSeq(chunks, LAMBDA c : c.kind = "interface")
  ELSE <<>>

\* A HierarchicalNode.  metadata.dependencies is written and never read, and
\* is left out.  complexity 0 stands for an absent complexity.
Node(id, type, name, path, parentId, content, size, language, complexity) ==
  [id |-> id, type |-> type, name |-> name, path |-> path, parentId |-> parentId,
   children |-> <<>>, content |-> content, size |-> size, language |-> language,
   complexity |-> complexity]

\* The node map this.nodes is a JavaScript Map: b.nodes lists the node objects
\* (indices of b.heap) in insertion order of their keys.
MapIndex(b, id) ==
  IF \E k \in 1..Len(b.nodes) : b.heap[b.nodes[k]].id = id
  THEN CHOOSE k \in 1..Len(b.nodes) : b.heap[b.nodes[k]].id = id
  ELSE 0

\* this.nodes.set(node.id, node) with a new node object
MapSet(b, node) ==
  LET oid == Len(b.heap) + 1
      k == MapIndex(b, node.id)
  IN [heap |-> Append(b.heap, node),
      nodes |-> IF k = 0 THEN Append(b.nodes, oid) ELSE [b.nodes EXCEPT ![k] = oid]]

\* this.nodes.get(id): the node object, 0 when there is none
MapGet(b, id) == IF MapIndex(b, id) = 0 THEN 0 ELSE b.nodes[MapIndex(b, id)]

Frame(dir, parentId, idx) == [dir |-> dir, parentId |-> parentId, idx |-> idx]

RECURSIVE PopFinished(_)
\* scanDirectory invocations whose loop has ended return
PopFinished(stack) ==
  IF stack = <<>> THEN stack
  ELSE LET top == stack[Len(stack)]
       IN IF top.idx > Len(FsDirs[top.dir].entries)
          THEN PopFinished(SubSeq(stack, 1, Len(stack) - 1))
          ELSE stack

\* EnterDirectory without the catch of its own: a readdir that fails ends
\* the scans of all the directories above as well
EnterDirectoryThrowing(stack, dirPath, parentId) ==
  IF CanReadDir(dirPath) THEN Append(stack, Frame(dirPath, parentId, 1)) ELSE <<>>

\* scanDirectory(dirPath, parentId) up to its loop: readdir fails into the catch
EnterDirectory(stack, dirPath, parentId) ==
  IF CanReadDir(dirPath) THEN Append(stack, Frame(dirPath, parentId, 1)) ELSE stack

\* ScanEntry with the parent id taken from the path of the containing
\* directory instead of the parentId argument
ScanEntryParentFromPath(b, stack) ==
  LET top == stack[Len(stack)]
      rest == SubSeq(stack, 1, Len(stack) - 1)
      entry == FsDirs[top.dir].entries[top.idx]
      fullPath == PathJoin(top.dir, entry.name)
      nodeId == generateNodeId(fullPath)
      parentId == generateNodeId(top.dir)
      advanced == Append(rest, [top EXCEPT !.idx = top.idx + 1])
  IN IF entry.isDirectory
     THEN [b |-> MapSet(b, Node(nodeId, "directory", entry.name, fullPath, parentId,
                                NoStr, getDirectorySize(fullPath), NoStr, 0)),
           stack |-> PopFinished(EnterDirectory(advanced, fullPath, nodeId))]
     ELSE IF isCodeFile(entry.name)
     THEN IF CanStat(fullPath)
          THEN [b |-> MapSet(b, Node(nodeId, "file", entry.name, fullPath, parentId,
                                     NoStr, FileSize(fullPath), getLanguage(entry.name), 0)),
                stack |-> PopFinished(advanced)]
          ELSE [b |-> b, stack |-> PopFinished(rest)]
     ELSE [b |-> b, stack |-> PopFinished(advanced)]

\* One entry of the innermost running scanDirectory: [b, stack] afterwards.
ScanEntry(b, stack) ==
  LET top == stack[Len(stack)]
      rest == SubSeq(stack, 1, Len(stack) - 1)
      entry == FsDirs[top.dir].entries[top.idx]
      fullPath == PathJoin(top.dir, entry.name)
      nodeId == generateNodeId(fullPath)
      advanced == Append(rest, [top EXCEPT !.idx = top.idx + 1])
  IN IF entry.isDirectory
     THEN [b |-> MapSet(b, Node(nodeId, "directory", entry.name, fullPath, top.parentId,
                                NoStr, getDirectorySize(fullPath), NoStr, 0)),
           stack |-> PopFinished(EnterDirectory(advanced, fullPath, nodeId))]
     ELSE IF isCodeFile(entry.name)
     THEN IF CanStat(fullPath)
          THEN [b |-> MapSet(b, Node(nodeId, "file", entry.name, fullPath, top.parentId,
                                     NoStr, FileSize(fullPath), getLanguage(entry.name), 0)),
                stack |-> PopFinished(advanced)]
          ELSE [b |-> b, stack |-> PopFinished(rest)]
     ELSE [b |-> b, stack |-> PopFinished(advanced)]

\* the position in the node map, from index `from` on, of the next file node
\* that analyzeFiles visits; 0 when the iteration is over
NextFile(b, from) ==
  IF \E k \in from..Len(b.nodes) : b.heap[b.nodes[k]].type = "file"
  THEN CHOOSE k \in from..Len(b.nodes) :
         /\ b.heap[b.nodes[k]].type = "file"
         /\ \A j \in from..(k - 1) : b.heap[b.nodes[j]].type # "file"
  ELSE 0

S_underscore == <<95>>

RECURSIVE AddElements(_, _, _, _)
\* the loop of analyzeFiles over the elements of the file node object `oid`
AddElements(b, oid, elements, i) ==
  IF i > Len(elements) THEN b
  ELSE LET file == b.heap[oid]
           element == elements[i]
           elementId == file.id \o S_underscore \o element.name
       IN AddElements(
            MapSet(b, Node(elementId, element.kind, element.name, file.path, file.id,
                           element.text, 0, file.language,
                           calculateComplexity(element.text))),
            oid, elements, i + 1)

\* analyzeFiles on the file node object `oid` once readFile has answered
AnalyzeFile(b, oid) ==
  LET file == b.heap[oid]
  IN IF ~CanReadFile(file.path) THEN b
     ELSE LET withContent == [b EXCEPT !.heap[oid].content = FileText(file.path)]
          IN AddElements(withContent, oid,
                         extractCodeElements(FsFiles[file.path].chunks, file.language), 1)

RECURSIVE PushChildren(_, _)
\* buildRelationships: parent.children.push(nodeId) for the nodes of the map
\* from position k on
PushChildren(b, k) ==
  IF k > Len(b.nodes) THEN b
  ELSE LET node == b.heap[b.nodes[k]]
           parent == IF node.parentId = NoStr THEN 0 ELSE MapGet(b, node.parentId)
       IN PushChildren(
            IF parent = 0 THEN b
            ELSE [b EXCEPT !.heap[parent].children = Append(@, node.id)],
            k + 1)

buildRelationships(b) == PushChildren(b, 1)

\* getAllNodes(): the node objects of the map, in its order
getAllNodes(b) == b.nodes

\* getParent(nodeId): the node object of the parent, 0 when there is none
getParent(b, nodeId) ==
  LET oid == MapGet(b, nodeId)
  IN IF oid = 0 THEN 0
     ELSE IF b.heap[oid].parentId = NoStr THEN 0
     ELSE MapGet(b, b.heap[oid].parentId)

----------------------------------------------------------------------------
(* HybridSearch: the record store (tables vectors, structural_index,        *)
(* knowledge_graph) and the indexer.  A table is the sequence of its rows   *)
(* in rowid order.  created_at is not modelled.                             *)

\* INSERT OR REPLACE: a row with the same primary key is deleted first
InsertOrReplace(table, row) ==
  Append(SelectSeq(table, LAMBDA r : r.id # row.id), row)

S_comma      == <<44>>

\* the text of a node type
TypeName ==
  ("directory" :> <<100, 105, 114, 101, 99, 116, 111, 114, 121>>) @@
  ("file" :> <<102, 105, 108, 101>>) @@
  ("function" :> <<102, 117, 110, 99, 116, 105, 111, 110>>) @@
  ("class" :> <<99, 108, 97, 115, 115>>) @@
  ("interface" :> <<105, 110, 116, 101, 114, 102, 97, 99, 101>>)

\* the cut points of the complexity tag
ComplexityHigh == 10
ComplexityMedium == 5

extractTags(node) ==
  LET S_lang       == <<108, 97, 110, 103, 58>>                                \* "lang:"
      S_type       == <<116, 121, 112, 101, 58>>                               \* "type:"
      S_complexity == <<99, 111, 109, 112, 108, 101, 120, 105, 116, 121, 58>>  \* "complexity:"
      S_high       == <<104, 105, 103, 104>>
      S_medium     == <<109, 101, 100, 105, 117, 109>>
      S_low        == <<108, 111, 119>>
  IN (IF node.language # NoStr THEN << S_lang \o node.language >> ELSE <<>>)
     \o << S_type \o TypeName[node.type] >>
     \o (IF node.complexity # 0
         THEN << S_complexity \o (IF node.complexity > ComplexityHigh THEN S_high
                                  ELSE IF node.complexity > ComplexityMedium THEN S_medium
                                  ELSE S_low) >>
         ELSE <<>>)

RECURSIVE PathUp(_, _, _)
\* the loop of getHierarchyPath from the node object oid (0: no node)
PathUp(b, oid, acc) ==
  IF oid = 0 THEN acc
  ELSE PathUp(b, getParent(b, b.heap[oid].id), << b.heap[oid].name >> \o acc)

getHierarchyPath(b, oid) == PathUp(b, oid, <<>>)

\* the row that indexCodebase stores for the node object oid
CodebaseVector(b, vectorId, guidanceId, oid) ==
  LET node == b.heap[oid]
  IN [id |-> vectorId, guidance_id |-> guidanceId, type |-> "codebase",
      content |-> node.content, embedding |-> generateEmbedding(node.content),
      source |-> node.path, path |-> node.path,
      hierarchy |-> getHierarchyPath(b, oid), tags |-> extractTags(node)]

\* the row that storeStructuralIndex stores for the node object oid
StructuralRow(b, rowId, guidanceId, oid) ==
  LET node == b.heap[oid]
  IN [id |-> rowId, guidance_id |-> guidanceId, node_id |-> node.id,
      hierarchy_path |-> Join(getHierarchyPath(b, oid), Slash),
      tags |-> Join(extractTags(node), S_comma),
      content_hash |-> simpleHash(node.content)]

\* extractDocumentContent: the text, NoStr for null.  The canonical text of a
\* .json file is JSON.stringify(JSON.parse(text), null, 2); the file system
\* above holds no .json document.
extractDocumentContent(filePath) ==
  LET ext == ToLower(ExtName(filePath))
      S_md == <<46, 109, 100>>
      S_txt == <<46, 116, 120, 116>>
  IN IF ext \in {S_md, S_txt}
     THEN IF CanReadFile(filePath) THEN FileText(filePath) ELSE NoStr
     ELSE NoStr

S_keyword  == <<107, 101, 121, 119, 111, 114, 100, 58>>   \* "keyword:"

\* keywords of extractDocumentTags
docKeywords ==
  << <<97, 112, 105>>, <<102, 117, 110, 99, 116, 105, 111, 110>>, <<99, 108, 97, 115, 115>>,
     <<105, 110, 116, 101, 114, 102, 97, 99, 101>>, <<99, 111, 110, 102, 105, 103>>,
     <<115, 101, 116, 117, 112>>, <<103, 117, 105, 100, 101>> >>

RECURSIVE KeywordTags(_, _)
KeywordTags(content, k) ==
  IF k > Len(docKeywords) THEN <<>>
  ELSE (IF Includes(ToLower(content), docKeywords[k])
        THEN << S_keyword \o docKeywords[k] >> ELSE <<>>)
       \o KeywordTags(content, k + 1)

extractDocumentTags(content) ==
  LET S_hash_sp == <<35, 32>>           \* "# "
      S_fence == <<96, 96, 96>>         \* "```"
      \* "type:markdown", "type:code-documentation"
      S_t_md == <<116, 121, 112, 101, 58, 109, 97, 114, 107, 100, 111, 119, 110>>
      S_t_codedoc == <<116, 121, 112, 101, 58, 99, 111, 100, 101, 45, 100, 111, 99, 117, 109,
                       101, 110, 116, 97, 116, 105, 111, 110>>
  IN (IF Includes(content, S_hash_sp) THEN << S_t_md >> ELSE <<>>)
     \o (IF Includes(content, S_fence) THEN << S_t_codedoc >> ELSE <<>>)
     \o KeywordTags(content, 1)

\* the row that indexExternalDocuments stores for a document with content
DocumentVector(vectorId, guidanceId, docPath, content) ==
  [id |-> vectorId, guidance_id |-> guidanceId, type |-> "external_doc",
   content |-> content, embedding |-> generateEmbedding(content),
   source |-> docPath, path |-> docPath,
   hierarchy |-> <<>>, tags |-> extractDocumentTags(content)]

\* a read that misses the row written last
getVectorsByGuidanceStale(vectors, guidanceId) ==
  SelectSeq(SubSeq(vectors, 1, Len(vectors) - 1), LAMBDA r : r.guidance_id = guidanceId)

\* SELECT * FROM vectors WHERE guidance_id = ?
getVectorsByGuidance(vectors, guidanceId) ==
  SelectSeq(vectors, LAMBDA r : r.guidance_id = guidanceId)

\* if (similarity > 0.7), in units of 1/SimScale
SimilarityThreshold == 700

IsSimilar(similarity) == similarity > SimilarityThreshold

\* NextPair with the inner loop ending one vector early
NextPairShort(i, j, n) == IF j < n - 1 THEN << i, j + 1 >> ELSE << i + 1, i + 2 >>

\* the pair after (i, j) in the loops of buildKnowledgeGraph over n vectors
NextPair(i, j, n) == IF j < n THEN << i, j + 1 >> ELSE << i + 1, i + 2 >>

RECURSIVE NextSimilarPair(_, _, _)
\* the first pair from (i, j) on that buildKnowledgeGraph relates; <<0, 0>>
\* when the loops end
NextSimilarPair(vs, i, j) ==
  IF i >= Len(vs) \/ j > Len(vs) THEN << 0, 0 >>
  ELSE IF IsSimilar(calculateSimilarity(vs[i].embedding, vs[j].embedding))
       THEN << i, j >>
       ELSE NextSimilarPair(vs, NextPair(i, j, Len(vs))[1], NextPair(i, j, Len(vs))[2])

\* the row of addRelation
Relation(rowId, sourceId, targetId, relationType, weight) ==
  [id |-> rowId, source_id |-> sourceId, target_id |-> targetId,
   relation_type |-> relationType, weight |-> weight]

----------------------------------------------------------------------------
(* HybridSearch.search.  A score s of the code is the integer s * ScoreUnit *)

\* 1.0 as a score; a multiple of SimScale, of 18 and of 10
ScoreUnit == 90000

\* the maximum of calculateStructuralScore before normalization
StructuralMax == 18

RECURSIVE InsertDesc(_, _)
\* r placed after the results of sorted whose score is not smaller
InsertDesc(sorted, r) ==
  IF sorted = <<>> THEN << r >>
  ELSE IF Head(sorted).score >= r.score
       THEN << Head(sorted) >> \o InsertDesc(Tail(sorted), r)
       ELSE << r >> \o sorted

RECURSIVE SortDescFrom(_, _, _)
SortDescFrom(results, k, acc) ==
  IF k > Len(results) THEN acc
  ELSE SortDescFrom(results, k + 1, InsertDesc(acc, results[k]))

\* the sort with the comparison turned round: (a, b) => a.score - b.score
SortByScoreAsc(results) ==
  LET d == SortDescFrom(results, 1, <<>>)
  IN [i \in 1..Len(d) |-> d[Len(d) + 1 - i]]

\* results.sort((a, b) => b.score - a.score): stable, descending
SortByScoreDesc(results) == SortDescFrom(results, 1, <<>>)

\* Array.prototype.slice(0, n) for n >= 0
Slice(seq, n) == SubSeq(seq, 1, IF n < Len(seq) THEN n ELSE Len(seq))

\* the rows vectorSearch reads
VectorRows(vectors, guidanceId, type) ==
  SelectSeq(vectors, LAMBDA r :
     /\ (guidanceId # None => r.guidance_id = guidanceId)
     /\ (type # "all" => r.type = type))

\* the candidates vectorSearch keeps, given how many it keeps
vectorSearch(vectors, query, guidanceId, type, limit) ==
  LET queryEmbedding == generateEmbedding(query)
      rows == VectorRows(vectors, guidanceId, type)
      results == [k \in 1..Len(rows) |->
         [id |-> rows[k].id, type |-> rows[k].type, content |-> rows[k].content,
          score |-> calculateSimilarity(queryEmbedding, rows[k].embedding)
                      * (ScoreUnit \div SimScale),
          source |-> rows[k].source, path |-> rows[k].path,
          hierarchy |-> rows[k].hierarchy, relevance |-> << "vector_similarity" >>]]
  IN Slice(SortByScoreDesc(results), limit)

\* text LIKE '%pattern%' for a pattern without % and _
Like(text, pattern) == Includes(ToLower(text), ToLower(pattern))

calculateStructuralScore(node, query) ==
  LET score == (IF Includes(ToLower(node.name), query) THEN 10 ELSE 0)
             + (IF Includes(ToLower(node.path), query) THEN 5 ELSE 0)
             + (IF node.content # NoStr /\ Includes(ToLower(node.content), query)
                THEN 3 ELSE 0)
  IN score * (ScoreUnit \div StructuralMax)

\* the rows structuralSearch reads: its SQL has no condition on the type
StructuralRows(structural, queryLower, guidanceId, type) ==
  SelectSeq(structural, LAMBDA r :
     /\ (guidanceId # None => r.guidance_id = guidanceId)
     /\ (Like(r.hierarchy_path, queryLower) \/ Like(r.tags, queryLower)))

\* the type of a result of structuralSearch
StructuralResultType(type) == "code"

structuralSearch(b, structural, query, guidanceId, type, limit) ==
  LET queryLower == ToLower(query)
      rows == SelectSeq(StructuralRows(structural, queryLower, guidanceId, type),
                        LAMBDA r : MapGet(b, r.node_id) # 0)
      results == [k \in 1..Len(rows) |->
         LET oid == MapGet(b, rows[k].node_id)
             node == b.heap[oid]
         IN [id |-> rows[k].id, type |-> StructuralResultType(type),
             content |-> node.content,
             score |-> calculateStructuralScore(node, queryLower),
             source |-> node.path, path |-> node.path,
             hierarchy |-> getHierarchyPath(b, oid),
             relevance |-> << "structural_match" >>]]
  IN Slice(SortByScoreDesc(results), limit)

\* graphSearch: "Implementation omitted", always empty
graphSearch(graph, query, guidanceId, limit) == <<>>

\* the weights of combineResults, in tenths
VectorWeight == 4
StructuralWeight == 3
GraphWeight == 3

\* a fusion that leaves the weight out
WeightedFull(score, weight) == score

\* result.score * 0.4, result.score * 0.3
Weighted(score, weight) == (score * weight) \div 10

Max(a, b) == IF a >= b THEN a ELSE b

RECURSIVE Union(_, _)
\* [...new Set([...xs, ...ys])]
Union(xs, ys) ==
  IF ys = <<>> THEN xs
  ELSE Union(IF \E i \in 1..Len(xs) : xs[i] = Head(ys) THEN xs ELSE Append(xs, Head(ys)),
             Tail(ys))

\* one iteration of a loop of combineResults on the Map `combined`
Combine(combined, result, weight) ==
  IF \E k \in 1..Len(combined) : combined[k].id = result.id
  THEN LET k == CHOOSE k \in 1..Len(combined) : combined[k].id = result.id
       IN [combined EXCEPT
             ![k].score = Max(@, Weighted(result.score, weight)),
             ![k].relevance = Union(@, result.relevance)]
  ELSE Append(combined, [result EXCEPT !.score = Weighted(result.score, weight)])

RECURSIVE CombineAll(_, _, _)
CombineAll(combined, results, weight) ==
  IF results = <<>> THEN combined
  ELSE CombineAll(Combine(combined, Head(results), weight), Tail(results), weight)

combineResults(vectorResults, structuralResults, graphResults) ==
  SortByScoreDesc(
    CombineAll(CombineAll(CombineAll(<<>>, vectorResults, VectorWeight),
                          structuralResults, StructuralWeight),
               graphResults, GraphWeight))

\* CandidateLimit asking for fewer candidates than search returns
CandidateLimitShort(limit) == limit - 1

\* how many candidates search asks of the vector and the structural strategy
CandidateLimit(limit) == limit * 2

\* search keeping the entries that score at most the threshold
searchBelowThreshold(b, vectors, structural, graph, params) ==
  LET vectorResults == vectorSearch(vectors, params.query, params.guidanceId,
                                    params.type, CandidateLimit(params.limit))
      structuralResults == structuralSearch(b, structural, params.query, params.guidanceId,
                                            params.type, CandidateLimit(params.limit))
      graphResults == graphSearch(graph, params.query, params.guidanceId, params.limit)
      combinedResults == combineResults(vectorResults, structuralResults, graphResults)
  IN Slice(SelectSeq(combinedResults, LAMBDA r : r.score <= params.threshold),
           params.limit)

\* search(params) on node map b and the tables
search(b, vectors, structural, graph, params) ==
  LET vectorResults == vectorSearch(vectors, params.query, params.guidanceId,
                                    params.type, CandidateLimit(params.limit))
      structuralResults == structuralSearch(b, structural, params.query, params.guidanceId,
                                            params.type, CandidateLimit(params.limit))
      graphResults == graphSearch(graph, params.query, params.guidanceId, params.limit)
      combinedResults == combineResults(vectorResults, structuralResults, graphResults)
  IN Slice(SelectSeq(combinedResults, LAMBDA r : r.score >= params.threshold),
           params.limit)

----------------------------------------------------------------------------
(* The knowledge-graph server and command line of index.ts, on a disk. A    *)
(* path is the sequence of its names, so join(p, name) is Append(p, name);  *)
(* a name is a string. A disk is [dirs, files, json]: the sets of the paths *)
(* that exist, and the nodes of each .knowledge-node.json written; other    *)
(* file contents are not kept. A run is [disk, ok, io, kg]: the disk        *)
(* a series of file-system calls has left, whether none of them threw, how  *)
(* many were attempted, and the knowledgeGraph of the process.              *)

KnowledgeRootName == << 46, 107, 110, 111, 119, 108, 101, 100, 103, 101, 45, 114, 111, 111, 116 >>   \* ".knowledge-root"
KnowledgeNodeName == << 46, 107, 110, 111, 119, 108, 101, 100, 103, 101, 45, 110, 111, 100, 101 >>   \* ".knowledge-node"
MyKnowledgeName == << 46, 109, 121, 45, 107, 110, 111, 119, 108, 101, 100, 103, 101 >>   \* ".my-knowledge"

\* the directory names that are not entered
skipDirs ==
  { << 110, 111, 100, 101, 95, 109, 111, 100, 117, 108, 101, 115 >>,
    << 46, 103, 105, 116 >>,
    << 100, 105, 115, 116 >>,
    << 98, 117, 105, 108, 100 >>,
    << 46, 110, 101, 120, 116 >>,
    << 46, 110, 117, 120, 116 >>,
    << 99, 111, 118, 101, 114, 97, 103, 101 >>,
    << 46, 110, 121, 99, 95, 111, 117, 116, 112, 117, 116 >>,
    << 46, 99, 97, 99, 104, 101 >>,
    << 46, 112, 97, 114, 99, 101, 108, 45, 99, 97, 99, 104, 101 >>,
    << 46, 118, 115, 99, 111, 100, 101 >>,
    << 46, 105, 100, 101, 97 >>,
    << 118, 101, 110, 100, 111, 114 >>,
    << 116, 97, 114, 103, 101, 116 >>,
    << 111, 117, 116 >>,
    << 98, 105, 110 >>,
    << 111, 98, 106 >> }

SOURCE_FILE_EXTENSIONS ==
  { << 46, 116, 115 >>,
    << 46, 116, 115, 120 >>,
    << 46, 106, 115 >>,
    << 46, 106, 115, 120 >>,
    << 46, 112, 121 >>,
    << 46, 106, 97, 118, 97 >>,
    << 46, 99, 112, 112 >>,
    << 46, 99 >>,
    << 46, 104 >>,
    << 46, 104, 112, 112 >>,
    << 46, 99, 115 >>,
    << 46, 112, 104, 112 >>,
    << 46, 114, 98 >>,
    << 46, 103, 111 >>,
    << 46, 114, 115 >>,
    << 46, 115, 119, 105, 102, 116 >>,
    << 46, 107, 116 >>,
    << 46, 115, 99, 97, 108, 97 >>,
    << 46, 109 >>,
    << 46, 109, 109 >>,
    << 46, 118, 117, 101 >>,
    << 46, 115, 118, 101, 108, 116, 101 >>,
    << 46, 100, 97, 114, 116 >>,
    << 46, 114 >>,
    << 46, 106, 108 >>,
    << 46, 115, 104 >>,
    << 46, 98, 97, 115, 104 >>,
    << 46, 122, 115, 104 >>,
    << 46, 102, 105, 115, 104 >>,
    << 46, 115, 113, 108 >>,
    << 46, 104, 116, 109, 108 >>,
    << 46, 99, 115, 115 >>,
    << 46, 115, 99, 115, 115 >>,
    << 46, 115, 97, 115, 115 >>,
    << 46, 108, 101, 115, 115 >>,
    << 46, 120, 109, 108 >>,
    << 46, 106, 115, 111, 110 >>,
    << 46, 121, 97, 109, 108 >>,
    << 46, 121, 109, 108 >> }

\* item.name.startsWith('.')
StartsWithDot(name) == OccursAt(name, << 46 >>, 1)

\* name.substring(name.lastIndexOf('.')): the whole name when it has no dot
Extension(name) ==
  LET i == LastIndexOf(name, 46)
  IN IF i = 0 THEN name ELSE SubSeq(name, i, Len(name))

\* the directories no user may read or write (EACCES)
Denied == { << << 114, 111 >> >> }

\* path p and the paths above it, the root directory << >> included
Prefixes(p) == { SubSeq(p, 1, k) : k \in 0..Len(p) }

\* the directory that holds p
Dirname(p) == SubSeq(p, 1, Len(p) - 1)

\* the last name of p
Basename(p) == p[Len(p)]

\* p and everything below it
Subtree(d, p) ==
  { q \in d.dirs \cup d.files : Len(q) >= Len(p) /\ SubSeq(q, 1, Len(p)) = p }

\* a file-system call that throws: the disk stays, the run is over
Throw(r) == [r EXCEPT !.ok = FALSE, !.io = @ + 1]

\* mkdir(p, { recursive: true }): creates p and the ancestors that are
\* missing; throws when a name on the way is a file or when a directory that
\* would get a new entry is denied
Mkdir(r, p) ==
  LET d == r.disk
      missing == { q \in Prefixes(p) : q \notin d.dirs }
  IN IF ~r.ok THEN r
     ELSE IF \/ \E q \in Prefixes(p) : q \in d.files
             \/ \E q \in missing : Dirname(q) \in Denied
          THEN Throw(r)
          ELSE [r EXCEPT !.disk.dirs = @ \cup missing, !.io = @ + 1]

\* writeFile(p, data): creates or overwrites file p in an existing directory
WriteFile(r, p) ==
  LET d == r.disk
  IN IF ~r.ok THEN r
     ELSE IF Dirname(p) \notin d.dirs \/ Dirname(p) \in Denied \/ p \in d.dirs
          THEN Throw(r)
          ELSE [r EXCEPT !.disk.files = @ \cup {p}, !.io = @ + 1]

\* rm(p, { recursive: true, force: true }): removes p with all below it
Rm(r, p) ==
  LET d == r.disk
  IN IF ~r.ok THEN r
     ELSE IF Dirname(p) \in Denied
          THEN Throw(r)
          ELSE [r EXCEPT !.disk = [dirs |-> d.dirs \ Subtree(d, p),
                                   files |-> d.files \ Subtree(d, p),
                                   json |-> [q \in DOMAIN d.json \ Subtree(d, p) |-> d.json[q]]],
                         !.io = @ + 1]

\* writeFile(p, JSON.stringify({ ..., nodes, ... })) of a .knowledge-node.json
WriteJson(r, p, nodes) ==
  LET w == WriteFile(r, p)
  IN IF r.ok /\ w.ok
     THEN [w EXCEPT !.disk.json = [q \in DOMAIN @ \cup {p} |-> IF q = p THEN nodes ELSE @[q]]]
     ELSE w

\* readdir(p) succeeds
CanReaddir(d, p) == p \in d.dirs /\ p \notin Denied

\* the elements of S in the order readdir lists them: some fixed order
RECURSIVE InOrder(_)
InOrder(S) ==
  IF S = {} THEN << >>
  ELSE LET q == CHOOSE x \in S : TRUE IN << q >> \o InOrder(S \ {q})

\* readdir(p, { withFileTypes: true }) when it succeeds
Readdir(d, p) ==
  InOrder({ q \in d.dirs \cup d.files : Len(q) = Len(p) + 1 /\ Dirname(q) = p })

\* traverseDirectories(rootDir): a .knowledge-node folder with its json in
\* every directory below rootDir that no dot-directory hides
RECURSIVE traverseDirectories(_, _)
RECURSIVE traverseItems(_, _)
traverseItems(r, items) ==
  IF items = << >> \/ ~r.ok THEN r
  ELSE LET itemPath == Head(items)
           knowledgeNodePath == Append(itemPath, KnowledgeNodeName)
       IN IF itemPath \in r.disk.dirs /\ ~StartsWithDot(Basename(itemPath))
          THEN traverseItems(
                 traverseDirectories(
                   WriteJson(Mkdir(r, knowledgeNodePath),
                             Append(knowledgeNodePath, << 46, 107, 110, 111, 119, 108, 101, 100, 103, 101, 45, 110, 111, 100, 101, 46, 106, 115, 111, 110 >>),   \* ".knowledge-node.json"
                             << >>),
                   itemPath),
                 Tail(items))
          ELSE traverseItems(r, Tail(items))

traverseDirectories(r, currentDir) ==
  IF ~r.ok THEN r
  ELSE IF ~CanReaddir(r.disk, currentDir) THEN Throw(r)
  ELSE traverseItems([r EXCEPT !.io = @ + 1], Readdir(r.disk, currentDir))

\* the values a tool argument takes: a string (v is the path it names, << >>
\* for the empty string), a number other than 0, or undefined
Undefined == [t |-> "undefined", v |-> << >>]
Num == [t |-> "number", v |-> << >>]
Str(p) == [t |-> "string", v |-> p]

\* !x
Falsy(x) == x.t = "undefined" \/ (x.t = "string" /\ x.v = << >>)

\* a validation that tests !x alone
InvalidFalsyOnly(x) == Falsy(x)

\* !x || typeof x !== 'string'
Invalid(x) == Falsy(x) \/ x.t # "string"

\* the body of setup, in the tool handler and in the command line alike:
\* .knowledge-root with its three files, then traverseDirectories. join
\* throws a TypeError for a rootDirectory that is not a string.
setupProject(r, rootDirectory) ==
  LET knowledgeRootPath == Append(rootDirectory.v, KnowledgeRootName)
  IN IF rootDirectory.t # "string" THEN [r EXCEPT !.ok = FALSE]
     ELSE traverseDirectories(
            WriteFile(
              WriteJson(
                WriteFile(Mkdir(r, knowledgeRootPath),
                          Append(knowledgeRootPath, << 46, 99, 111, 110, 102, 105, 103, 46, 121, 97, 109, 108 >>)),   \* ".config.yaml"
                Append(knowledgeRootPath, << 46, 107, 110, 111, 119, 108, 101, 100, 103, 101, 45, 110, 111, 100, 101, 46, 106, 115, 111, 110 >>),   \* ".knowledge-node.json"
                << >>),
              Append(knowledgeRootPath, << 46, 107, 110, 111, 119, 108, 101, 100, 103, 101, 45, 105, 103, 110, 111, 114, 101, 46, 106, 115, 111, 110 >>)),   \* ".knowledge-ignore.json"
            rootDirectory.v)

\* findSourceFiles(dirPath) on disk d, from result f = [ok, io, files]: the
\* files with a source extension in dirPath and below, dot-directories and
\* skipDirs left out; a directory that cannot be read makes it throw
RECURSIVE findSourceFiles(_, _, _)
RECURSIVE findItems(_, _, _)
findItems(d, f, items) ==
  IF items = << >> \/ ~f.ok THEN f
  ELSE LET item == Head(items)
           name == Basename(item)
       IN IF item \in d.dirs /\ ~StartsWithDot(name)
          THEN IF name \notin skipDirs
               THEN findItems(d, findSourceFiles(d, f, item), Tail(items))
               ELSE findItems(d, f, Tail(items))
          ELSE IF item \in d.files /\ Extension(name) \in SOURCE_FILE_EXTENSIONS
               THEN findItems(d, [f EXCEPT !.files = Append(@, item)], Tail(items))
               ELSE findItems(d, f, Tail(items))

findSourceFiles(d, f, currentDir) ==
  IF ~f.ok THEN f
  ELSE IF ~CanReaddir(d, currentDir) THEN [f EXCEPT !.ok = FALSE, !.io = @ + 1]
  ELSE findItems(d, [f EXCEPT !.io = @ + 1], Readdir(d, currentDir))

\* what /(?:function|const|let|var)\s+(\w+)\s*[=\(]/g finds in the content
\* of file p, funcName by funcName: every a.ts declares `function f(`
SourceFunctions(p) ==
  IF Basename(p) = << 97, 46, 116, 115 >> THEN << << 102 >> >> ELSE << >>

\* the entities createKnowledgeGraphFromFiles makes of one file: the file
\* entity file_<relativePath with _ for /> and one function entity
\* func_<fileName>_<funcName> for each function found
FileEntities(filePath, dirPath) ==
  LET relativePath == SubSeq(filePath, Len(dirPath) + 1, Len(filePath))
      fileName == relativePath[Len(relativePath)]
      funcs == SourceFunctions(filePath)
  IN << [name |-> << 102, 105, 108, 101, 95 >> \o Join(relativePath, S_underscore),
         entityType |-> "source_file", fullPath |-> filePath] >>
     \o [k \in 1..Len(funcs) |->
           [name |-> << 102, 117, 110, 99, 95 >> \o fileName \o S_underscore \o funcs[k],
            entityType |-> "function", fullPath |-> filePath]]

\* createKnowledgeGraphFromFiles(sourceFiles, dirPath): the nodes; every
\* file of the model can be read
RECURSIVE createKnowledgeGraphFromFiles(_, _)
createKnowledgeGraphFromFiles(sourceFiles, dirPath) ==
  IF sourceFiles = << >> THEN << >>
  ELSE FileEntities(Head(sourceFiles), dirPath)
       \o createKnowledgeGraphFromFiles(Tail(sourceFiles), dirPath)

\* saveKnowledgeGraph(dirPath, knowledgeGraph)
saveKnowledgeGraph(r, dirPath, localKnowledgeGraph) ==
  LET knowledgeNodePath == Append(dirPath, KnowledgeNodeName)
  IN WriteJson(Mkdir(r, knowledgeNodePath),
               Append(knowledgeNodePath, << 46, 107, 110, 111, 119, 108, 101, 100, 103, 101, 45, 110, 111, 100, 101, 46, 106, 115, 111, 110 >>),   \* ".knowledge-node.json"
               localKnowledgeGraph)

\* generateKnowledgeGraph(targetFolder): dfsTraverse. Whatever is thrown
\* while the entries of a directory are gone through ends that directory
\* with a warning (ok again, the entries left are not visited).
RECURSIVE generateKnowledgeGraph(_, _)
RECURSIVE dfsItems(_, _)
dfsItems(r, items) ==
  IF ~r.ok THEN [r EXCEPT !.ok = TRUE]
  ELSE IF items = << >> THEN r
  ELSE LET itemPath == Head(items)
           name == Basename(itemPath)
           found == findSourceFiles(r.disk, [ok |-> TRUE, io |-> 0, files |-> << >>], itemPath)
           looked == [r EXCEPT !.ok = found.ok, !.io = @ + found.io]
           localKnowledgeGraph == createKnowledgeGraphFromFiles(found.files, itemPath)
           read == [looked EXCEPT !.io = @ + Len(found.files)]
           saved == saveKnowledgeGraph(read, itemPath, localKnowledgeGraph)
       IN IF itemPath \in r.disk.dirs /\ ~StartsWithDot(name)
          THEN IF name \in skipDirs THEN dfsItems(r, Tail(items))
               ELSE IF ~found.ok THEN dfsItems(looked, Tail(items))
               ELSE IF Len(found.files) > 0
               THEN IF saved.ok
                    THEN dfsItems(
                           generateKnowledgeGraph(
                             [saved EXCEPT !.kg = @ \o localKnowledgeGraph], itemPath),
                           Tail(items))
                    ELSE dfsItems(saved, Tail(items))
               ELSE dfsItems(generateKnowledgeGraph(looked, itemPath), Tail(items))
          ELSE dfsItems(r, Tail(items))

generateKnowledgeGraph(r, currentDir) ==
  IF ~CanReaddir(r.disk, currentDir) THEN [r EXCEPT !.io = @ + 1]
  ELSE dfsItems([r EXCEPT !.io = @ + 1], Readdir(r.disk, currentDir))

\* updateKnowledgeGraph(gitDiff): the changed files are listed on the
\* console only; gitDiff.split throws a TypeError when gitDiff has no split
updateKnowledgeGraph(r, gitDiff) ==
  IF gitDiff.t # "string" THEN [r EXCEPT !.ok = FALSE] ELSE r

\* generatePrivateKnowledge(rootDirectory, purpose)
generatePrivateKnowledge(r, rootDirectory) ==
  LET myKnowledgePath == Append(rootDirectory.v, MyKnowledgeName)
  IN IF rootDirectory.t # "string" THEN [r EXCEPT !.ok = FALSE]
     ELSE WriteFile(Mkdir(r, myKnowledgePath),
                    Append(myKnowledgePath, << 112, 114, 105, 118, 97, 116, 101, 45, 107, 110, 111, 119, 108, 101, 100, 103, 101, 46, 106, 115, 111, 110 >>))   \* "private-knowledge.json"

\* a clearDir that enters the skipDirs
SkippedDotOnly(name) ==
  /\ StartsWithDot(name)
  /\ ~OccursAt(name, << 46, 107, 110, 111, 119, 108, 101, 100, 103, 101, 45 >>, 1)
  /\ name # MyKnowledgeName

\* clearDir passes over the directory called name: a skipDirs name, or a
\* dot-directory that is neither .knowledge-* nor .my-knowledge
Skipped(name) ==
  \/ name \in skipDirs
  \/ /\ StartsWithDot(name)
     /\ ~OccursAt(name, << 46, 107, 110, 111, 119, 108, 101, 100, 103, 101, 45 >>, 1)   \* ".knowledge-"
     /\ name # MyKnowledgeName

\* clearKnowledgeFiles(rootDir): clearDir. A directory that is not there
\* (ENOENT) is passed over, any other error is thrown on.
RECURSIVE clearKnowledgeFiles(_, _)
RECURSIVE clearItems(_, _)
clearItems(r, items) ==
  IF items = << >> \/ ~r.ok THEN r
  ELSE LET itemPath == Head(items)
           name == Basename(itemPath)
       IN IF itemPath \notin r.disk.dirs THEN clearItems(r, Tail(items))
          ELSE IF Skipped(name) THEN clearItems(r, Tail(items))
          ELSE IF name \in { KnowledgeRootName, KnowledgeNodeName, MyKnowledgeName }
               THEN clearItems(Rm(r, itemPath), Tail(items))
          ELSE clearItems(clearKnowledgeFiles(r, itemPath), Tail(items))

clearKnowledgeFiles(r, currentDir) ==
  IF ~r.ok THEN r
  ELSE IF currentDir \notin r.disk.dirs THEN [r EXCEPT !.io = @ + 1]
  ELSE IF currentDir \in Denied THEN Throw(r)
  ELSE clearItems([r EXCEPT !.io = @ + 1], Readdir(r.disk, currentDir))

\* process.cwd()
Cwd == << << 114 >> >>

\* the arguments of a tool call; a field that is not given is Undefined
NoArgs ==
  [rootDirectory |-> Undefined, targetFolder |-> Undefined, gitDiff |-> Undefined,
   purpose |-> Undefined]

\* the handler of CallToolRequestSchema: the run that tool name with
\* arguments args makes from run r; isError is ~ok
callTool(r, name, args) ==
  CASE name = "setup" ->
         IF Invalid(args.rootDirectory) THEN [r EXCEPT !.ok = FALSE]
         ELSE setupProject(r, args.rootDirectory)
    [] name = "generate" ->
         IF Invalid(args.targetFolder) THEN [r EXCEPT !.ok = FALSE]
         ELSE IF args.targetFolder.t # "string" THEN r   \* readdir rejects within dfsTraverse's try
         ELSE generateKnowledgeGraph(r, args.targetFolder.v)
    [] name = "update" -> updateKnowledgeGraph(r, args.gitDiff)
    [] name = "private-knowledge" ->
         IF Invalid(args.rootDirectory) \/ Invalid(args.purpose) THEN [r EXCEPT !.ok = FALSE]
         ELSE generatePrivateKnowledge(r, args.rootDirectory)
    [] name = "clear" ->
         LET targetDir == IF Falsy(args.rootDirectory) THEN Cwd ELSE args.rootDirectory.v
         IN clearKnowledgeFiles([r EXCEPT !.kg = << >>], targetDir)
    [] OTHER -> [r EXCEPT !.ok = FALSE]

\* runCLI: the run that command makes with the positional arguments argv,
\* which yargs has required; process.exit(1) is ~ok
runCLI(r, command, argv) ==
  CASE command = "setup" -> setupProject(r, argv.rootDirectory)
    [] command = "generate" -> generateKnowledgeGraph(r, argv.targetFolder.v)
    [] command = "update" -> updateKnowledgeGraph(r, argv.gitDiff)
    [] command = "private-knowledge" -> generatePrivateKnowledge(r, argv.rootDirectory)
    [] command = "clear" ->
         LET targetDir == IF Falsy(argv.rootDirectory) THEN Cwd ELSE argv.rootDirectory.v
         IN clearKnowledgeFiles([r EXCEPT !.kg = << >>], targetDir)

----------------------------------------------------------------------------
(* knowledge-tree.ts: KnowledgeTreeNode and KnowledgeTree. The objects are  *)
(* objs[1], objs[2], ... in the order of their construction; parent 0 is    *)
(* null. The texts summary and childSummaries are written from data and     *)
(* children and never read back by the code modelled; they are not kept.    *)

\* new KnowledgeTreeNode(data)
KnowledgeTreeNode(name) == [name |-> name, parent |-> 0, children |-> << >>]

\* children.indexOf(child), 0 for -1
IndexOfChild(children, child) ==
  IF \E k \in 1..Len(children) : children[k] = child
  THEN CHOOSE k \in 1..Len(children) :
         children[k] = child /\ \A j \in 1..(k - 1) : children[j] # child
  ELSE 0

\* this.addChild(child)
addChild(objs, this, child) ==
  [[objs EXCEPT ![child].parent = this]
     EXCEPT ![this].children = Append(@, child)]

\* this.removeChild(child)
removeChild(objs, this, child) ==
  LET index == IndexOfChild(objs[this].children, child)
  IN IF index > 0
     THEN [[objs EXCEPT ![this].children =
                    SubSeq(@, 1, index - 1) \o SubSeq(@, index + 1, Len(@))]
             EXCEPT ![child].parent = 0]
     ELSE objs

\* new KnowledgeTree() in a process that holds the objects objs; threw tells
\* whether the last call on the tree has thrown
NewTree(objs) ==
  [objs |-> objs, root |-> 0, nodeMap |-> << >>, threw |-> FALSE]

\* addNode(data, parentName) on tree t, parentName None when it is not given
addNode(t, name, parentName) ==
  LET id == Len(t.objs) + 1
      made == Append(t.objs, KnowledgeTreeNode(name))
      set == [n \in DOMAIN t.nodeMap \cup {name} |-> IF n = name THEN id ELSE t.nodeMap[n]]
  IN IF parentName = None
     THEN IF t.root # 0
          THEN [t EXCEPT !.objs = made, !.nodeMap = set, !.threw = TRUE]
          ELSE [t EXCEPT !.objs = made, !.nodeMap = set, !.root = id, !.threw = FALSE]
     ELSE IF parentName \notin DOMAIN set
          THEN [t EXCEPT !.objs = made, !.nodeMap = set, !.threw = TRUE]
          ELSE [t EXCEPT !.objs = addChild(made, set[parentName], id),
                         !.nodeMap = set, !.threw = FALSE]

\* getSize()
getSize(t) == Cardinality(DOMAIN t.nodeMap)

\* findNode(name), 0 for undefined
findNode(t, name) == IF name \in DOMAIN t.nodeMap THEN t.nodeMap[name] ELSE 0

----------------------------------------------------------------------------
(* knowledge-tree.ts: KnowledgeNodeManager. A run m of one of its methods   *)
(* holds the disk, whether the method is still running (ok) or has thrown,  *)
(* the set processed of buildKnowledgeTree and the directories whose        *)
(* .knowledge-node.json has been rewritten, in the order of the writes.     *)
(* The text of a node file (purpose, summaries, dates) is not kept: the     *)
(* methods modelled decide nothing on it.                                   *)

KnowledgeNodeFileName ==
  << 46, 107, 110, 111, 119, 108, 101, 100, 103, 101, 45, 110, 111, 100, 101, 46, 106, 115, 111, 110 >>   \* ".knowledge-node.json"

\* path.join(dirPath, '.knowledge-node.json')
NodePath(dirPath) == Append(dirPath, KnowledgeNodeFileName)

\* fs.existsSync(p)
ExistsSync(d, p) == p \in d.dirs \cup d.files

\* a method throws: what it has written stays
ThrowM(m) == [m EXCEPT !.ok = FALSE]

\* the directories among readdirSync(p, { withFileTypes: true })
Subdirs(d, p) == SelectSeq(Readdir(d, p), LAMBDA q : q \in d.dirs)

\* fs.writeFileSync(nodePath, ...)
WriteFileSync(m, p) ==
  LET w == WriteFile([disk |-> m.disk, ok |-> m.ok, io |-> 0], p)
  IN [m EXCEPT !.disk = w.disk, !.ok = w.ok]

\* analyzeDirectory(dirPath): throws when the directory cannot be listed
analyzeDirectory(m, dirPath) ==
  IF m.ok /\ ~CanReaddir(m.disk, dirPath) THEN ThrowM(m) ELSE m

\* readKnowledgeNode(dirPath) is not null
readKnowledgeNode(d, dirPath) == NodePath(dirPath) \in d.files

\* createKnowledgeNode(dirPath)
createKnowledgeNode(m, dirPath) ==
  IF ~m.ok \/ ExistsSync(m.disk, NodePath(dirPath)) THEN m
  ELSE WriteFileSync(analyzeDirectory(m, dirPath), NodePath(dirPath))

\* createAllKnowledgeNodes(startPath)
RECURSIVE createAllKnowledgeNodes(_, _)
RECURSIVE createAllIn(_, _)
createAllIn(m, directories) ==
  IF directories = << >> THEN m
  ELSE createAllIn(createAllKnowledgeNodes(m, Head(directories)), Tail(directories))
createAllKnowledgeNodes(m, targetPath) ==
  IF ~m.ok THEN m
  ELSE IF ~ExistsSync(m.disk, targetPath) \/ targetPath \notin m.disk.dirs THEN ThrowM(m)
  ELSE LET made == createKnowledgeNode(m, targetPath)
       IN IF ~made.ok THEN made
          ELSE IF ~CanReaddir(made.disk, targetPath) THEN ThrowM(made)
          ELSE createAllIn(made, Subdirs(made.disk, targetPath))

\* updateKnowledgeNode(dirPath, updates)
updateKnowledgeNode(m, dirPath) ==
  IF ~m.ok THEN m
  ELSE IF ~readKnowledgeNode(m.disk, dirPath) THEN ThrowM(m)
  ELSE LET w == WriteFileSync(m, NodePath(dirPath))
       IN IF w.ok THEN [w EXCEPT !.updated = Append(@, dirPath)] ELSE w

\* the while loop of buildKnowledgeTree readdirSync never throws in
RECURSIVE CanFindLeaves(_, _)
CanFindLeaves(d, queue) ==
  IF queue = << >> THEN TRUE
  ELSE /\ CanReaddir(d, Head(queue))
       /\ CanFindLeaves(d, Tail(queue) \o Subdirs(d, Head(queue)))

\* the while loop of buildKnowledgeTree: the leaf nodes found from a queue.
\* No directory is met twice on this disk, so the set visited never stops
\* anything.
RECURSIVE LeafNodes(_, _)
LeafNodes(d, queue) ==
  IF queue = << >> THEN << >>
  ELSE LET currentDir == Head(queue)
       IN IF Subdirs(d, currentDir) = << >>
          THEN << currentDir >> \o LeafNodes(d, Tail(queue))
          ELSE LeafNodes(d, Tail(queue) \o Subdirs(d, currentDir))

\* processNodeUpward(nodePath, processed)
RECURSIVE processNodeUpward(_, _)
processNodeUpward(m, nodePath) ==
  IF ~m.ok \/ nodePath \in m.processed THEN m
  ELSE IF ~readKnowledgeNode(m.disk, nodePath) THEN m
  ELSE LET u == updateKnowledgeNode(analyzeDirectory(m, nodePath), nodePath)
           done == [u EXCEPT !.processed = @ \cup { nodePath }]
           parentPath == Dirname(nodePath)
       IN IF ~u.ok THEN u
          ELSE IF parentPath # nodePath /\ ExistsSync(done.disk, parentPath)
               THEN processNodeUpward(done, parentPath)
               ELSE done

\* the for loop of buildKnowledgeTree
RECURSIVE ProcessLeaves(_, _)
ProcessLeaves(m, leafNodes) ==
  IF leafNodes = << >> THEN m
  ELSE ProcessLeaves(processNodeUpward(m, Head(leafNodes)), Tail(leafNodes))

\* buildKnowledgeTree(startPath)
buildKnowledgeTree(m, targetPath) ==
  IF ~ExistsSync(m.disk, targetPath) THEN ThrowM(m)
  ELSE IF ~CanFindLeaves(m.disk, << targetPath >>) THEN ThrowM(m)
  ELSE ProcessLeaves(m, LeafNodes(m.disk, << targetPath >>))

\* removeKnowledgeNode(dirPath)
removeKnowledgeNode(m, dirPath) ==
  IF m.ok /\ ExistsSync(m.disk, NodePath(dirPath))
  THEN [m EXCEPT !.disk.files = @ \ { NodePath(dirPath) }]
  ELSE m

\* removeAllKnowledgeNodes(startPath)
RECURSIVE removeAllKnowledgeNodes(_, _)
RECURSIVE removeAllIn(_, _)
removeAllIn(m, directories) ==
  IF directories = << >> THEN m
  ELSE removeAllIn(removeAllKnowledgeNodes(m, Head(directories)), Tail(directories))
removeAllKnowledgeNodes(m, targetPath) ==
  IF ~m.ok THEN m
  ELSE IF ~ExistsSync(m.disk, targetPath) \/ ~CanReaddir(m.disk, targetPath) THEN ThrowM(m)
  ELSE removeAllIn(removeKnowledgeNode(m, targetPath), Subdirs(m.disk, targetPath))

----------------------------------------------------------------------------
(* The program as a state machine: calls of indexGuidance advance from one  *)
(* await to the next, calls of search answer at once.                       *)

VARIABLES
  heap,        \* the HierarchicalNode objects ever created
  nodes,       \* HierarchicalRAG.nodes: the objects of the Map, in key order
  vectors,     \* table vectors
  structural,  \* table structural_index
  graph,       \* table knowledge_graph
  nextUuid,    \* uuidv4(): the ids handed out so far are 1..nextUuid-1
  ops,         \* the calls of indexGuidance in progress, by slot
  passes,      \* how many calls of indexGuidance have begun
  log,         \* the completed calls of indexGuidance, with the ids they left
  resp,        \* the call of search in progress with its answer, NoResp when there is none
  disk,        \* the file system the knowledge-graph tools work on
  knowledgeGraph,  \* index.ts: the nodes of the global knowledgeGraph
  calls,       \* the tool calls and commands completed, with their outcomes
  proc,        \* the process of index.ts that has been launched, NoProc when there is none
  tree,        \* knowledge-tree.ts: the KnowledgeTreeNode objects and the KnowledgeTree
  cli          \* the last command of the knowledge-tree CLI and what it has updated

ragVars == << heap, nodes, vectors, structural, graph, nextUuid, ops, passes, log, resp >>
kgVars == << disk, knowledgeGraph, calls, proc, tree, cli >>
vars == << heap, nodes, vectors, structural, graph, nextUuid, ops, passes, log, resp,
          disk, knowledgeGraph, calls, proc, tree, cli >>

\* the disk at the start: /r with src/a.ts, src/lib/a.ts, README,
\* node_modules/pkg/i.js and .git/, and the denied directory /ro
InitDisk ==
  [dirs |-> { << >>,
              << << 114 >> >>,
              << << 114 >>, << 115, 114, 99 >> >>,
              << << 114 >>, << 115, 114, 99 >>, << 108, 105, 98 >> >>,
              << << 114 >>, << 110, 111, 100, 101, 95, 109, 111, 100, 117, 108, 101, 115 >> >>,
              << << 114 >>, << 110, 111, 100, 101, 95, 109, 111, 100, 117, 108, 101, 115 >>, << 112, 107, 103 >> >>,
              << << 114 >>, << 46, 103, 105, 116 >> >>,
              << << 114, 111 >> >> },
   files |-> { << << 114 >>, << 115, 114, 99 >>, << 97, 46, 116, 115 >> >>,
               << << 114 >>, << 115, 114, 99 >>, << 108, 105, 98 >>, << 97, 46, 116, 115 >> >>,
               << << 114 >>, << 82, 69, 65, 68, 77, 69 >> >>,
               << << 114 >>, << 110, 111, 100, 101, 95, 109, 111, 100, 117, 108, 101, 115 >>, << 112, 107, 103 >>, << 105, 46, 106, 115 >> >> },
   json |-> << >>]

\* tool calls and commands made in one run
MaxCalls == 2

\* cli before the knowledge-tree CLI has run
NoCommand == [command |-> "none", targetPath |-> << >>, ok |-> TRUE, updated |-> << >>]

\* proc when no process of index.ts runs; pc "exited" is a process that has ended
NoProc == [pc |-> "none", command |-> "none", argv |-> NoArgs, isTTY |-> FALSE, code |-> 0]

\* calls of indexGuidance begun in one run
MaxPasses == 2
\* the largest limit a search asks for
MaxLimit == 4

Slots == {1, 2}
Guidances == {"g1", "g2"}

\* the (codebasePath, externalDocs) a call of indexGuidance is given
Inputs ==
  { << S_a, <<>> >>, << S_b, << S_x_md, S_y_md >> >>, << NoStr, << S_x_md, S_z_bin >> >> }

S_zz == <<122, 122>>   \* "zz"

Queries == { S_f, S_zz }
Thresholds == { 0, ScoreUnit \div 5, ScoreUnit \div 2 }
SearchTypes == { "all", "document" }

ParamSet ==
  [query : Queries, guidanceId : {None, "g1"}, type : SearchTypes,
   limit : {1, MaxLimit}, threshold : Thresholds]

B == [heap |-> heap, nodes |-> nodes]

\* resp when no call of search is in progress; otherwise resp holds one record
NoResp == <<>>

IdleOp ==
  [pc |-> "idle", guidanceId |-> None, codebasePath |-> NoStr, externalDocs |-> <<>>,
   stack |-> <<>>, ai |-> 0, cur |-> 0, snap |-> <<>>, si |-> 0, di |-> 0,
   gsnap |-> <<>>, gi |-> 0, gj |-> 0]

\* no call is in progress
AllIdle == resp = NoResp /\ \A o \in Slots : ops[o].pc = "idle"

Init ==
  /\ heap = <<>>
  /\ nodes = <<>>
  /\ vectors = <<>>
  /\ structural = <<>>
  /\ graph = <<>>
  /\ nextUuid = 1
  /\ ops = [o \in Slots |-> IdleOp]
  /\ passes = 0
  /\ log = <<>>
  /\ resp = NoResp
  /\ disk = InitDisk
  /\ knowledgeGraph = << >>
  /\ calls = << >>
  /\ proc = NoProc
  /\ tree = NewTree(<< >>)
  /\ cli = NoCommand

\* indexGuidance after step 1: external documents when there are any, else
\* the knowledge graph
AfterCodebase(op) ==
  IF Len(op.externalDocs) > 0 THEN [op EXCEPT !.pc = "docs", !.di = 1]
  ELSE [op EXCEPT !.pc = "graph"]

\* indexGuidance(guidanceId, codebasePath, externalDocs) up to its first await
BeginIndex(o, guidanceId, codebasePath, externalDocs) ==
  LET op == [IdleOp EXCEPT !.guidanceId = guidanceId, !.codebasePath = codebasePath,
                           !.externalDocs = externalDocs]
  IN /\ ops[o].pc = "idle"
     /\ passes < MaxPasses
     /\ ops' = [ops EXCEPT ![o] =
                  IF codebasePath # NoStr
                  THEN [op EXCEPT !.pc = "scan",
                                  !.stack = PopFinished(EnterDirectory(<<>>, codebasePath, NoStr))]
                  ELSE AfterCodebase(op)]
     /\ passes' = passes + 1
     /\ UNCHANGED << heap, nodes, vectors, structural, graph, nextUuid, log, resp, kgVars >>

\* a call of indexGuidance while no other call is in progress
StartIndex ==
  \E g \in Guidances, in \in Inputs :
     /\ AllIdle
     /\ BeginIndex(1, g, in[1], in[2])

\* scanDirectory: the next directory entry
ScanStep(o) ==
  /\ ops[o].pc = "scan"
  /\ ops[o].stack # <<>>
  /\ LET r == ScanEntry(B, ops[o].stack)
     IN /\ heap' = r.b.heap
        /\ nodes' = r.b.nodes
        /\ ops' = [ops EXCEPT ![o].stack = r.stack]
  /\ UNCHANGED << vectors, structural, graph, nextUuid, passes, log, resp, kgVars >>

\* analyzeFiles moves on to the next file node at or after position `from`
ToNextFile(op, b, from) ==
  LET k == NextFile(b, from)
  IN IF k = 0 THEN [op EXCEPT !.pc = "rel", !.cur = 0]
     ELSE [op EXCEPT !.pc = "read", !.cur = b.nodes[k], !.ai = k + 1]

\* scanDirectory has returned to buildHierarchy: analyzeFiles begins
AnalyzeBegin(o) ==
  /\ ops[o].pc = "scan"
  /\ ops[o].stack = <<>>
  /\ ops' = [ops EXCEPT ![o] = ToNextFile([@ EXCEPT !.stack = <<>>], B, 1)]
  /\ UNCHANGED << heap, nodes, vectors, structural, graph, nextUuid, passes, log, resp, kgVars >>

\* analyzeFiles: readFile has answered for the file node it awaits
ReadStep(o) ==
  /\ ops[o].pc = "read"
  /\ LET b2 == AnalyzeFile(B, ops[o].cur)
     IN /\ heap' = b2.heap
        /\ nodes' = b2.nodes
        /\ ops' = [ops EXCEPT ![o] = ToNextFile(@, b2, ops[o].ai)]
  /\ UNCHANGED << vectors, structural, graph, nextUuid, passes, log, resp, kgVars >>

\* buildHierarchy after analyzeFiles: buildRelationships
RelStep(o) ==
  /\ ops[o].pc = "rel"
  /\ LET b2 == buildRelationships(B)
     IN /\ heap' = b2.heap
        /\ nodes' = b2.nodes
  /\ ops' = [ops EXCEPT ![o].pc = "snap"]
  /\ UNCHANGED << vectors, structural, graph, nextUuid, passes, log, resp, kgVars >>

\* the position in snap, from `from` on, of the next node object that
\* indexCodebase indexes (if (node.content)); 0 when its loop is over
NextContent(h, snap, from) ==
  IF \E k \in from..Len(snap) : h[snap[k]].content # NoStr
  THEN CHOOSE k \in from..Len(snap) :
         /\ h[snap[k]].content # NoStr
         /\ \A j \in from..(k - 1) : h[snap[j]].content = NoStr
  ELSE 0

ToNextContent(op, h, from) ==
  LET k == NextContent(h, op.snap, from)
  IN IF k = 0 THEN AfterCodebase([op EXCEPT !.si = 0])
     ELSE [op EXCEPT !.pc = "vec", !.si = k]

\* indexCodebase after buildHierarchy: getAllNodes() and the head of its loop
SnapStep(o) ==
  /\ ops[o].pc = "snap"
  /\ ops' = [ops EXCEPT ![o] = ToNextContent([@ EXCEPT !.snap = getAllNodes(B)], heap, 1)]
  /\ UNCHANGED << heap, nodes, vectors, structural, graph, nextUuid, passes, log, resp, kgVars >>

\* indexCodebase: the embedding has arrived, storeVector
VecStep(o) ==
  /\ ops[o].pc = "vec"
  /\ vectors' = InsertOrReplace(vectors,
        CodebaseVector(B, nextUuid, ops[o].guidanceId, ops[o].snap[ops[o].si]))
  /\ nextUuid' = nextUuid + 1
  /\ ops' = [ops EXCEPT ![o].pc = "str"]
  /\ UNCHANGED << heap, nodes, structural, graph, passes, log, resp, kgVars >>

\* indexCodebase: storeStructuralIndex
StrStep(o) ==
  /\ ops[o].pc = "str"
  /\ structural' = InsertOrReplace(structural,
        StructuralRow(B, nextUuid, ops[o].guidanceId, ops[o].snap[ops[o].si]))
  /\ nextUuid' = nextUuid + 1
  /\ ops' = [ops EXCEPT ![o].pc = "next"]
  /\ UNCHANGED << heap, nodes, vectors, graph, passes, log, resp, kgVars >>

\* indexCodebase: the next node of its loop
NextStep(o) ==
  /\ ops[o].pc = "next"
  /\ ops' = [ops EXCEPT ![o] = ToNextContent(@, heap, ops[o].si + 1)]
  /\ UNCHANGED << heap, nodes, vectors, structural, graph, nextUuid, passes, log, resp, kgVars >>

\* DocStep leaving the loop at the first document without content
DocStepAborting(o) ==
  /\ ops[o].pc = "docs"
  /\ LET docPath == ops[o].externalDocs[ops[o].di]
         content == extractDocumentContent(docPath)
     IN IF content # NoStr
        THEN /\ vectors' = InsertOrReplace(vectors,
                   DocumentVector(nextUuid, ops[o].guidanceId, docPath, content))
             /\ nextUuid' = nextUuid + 1
             /\ ops' = [ops EXCEPT ![o] =
                          IF ops[o].di < Len(ops[o].externalDocs)
                          THEN [@ EXCEPT !.di = @ + 1]
                          ELSE [@ EXCEPT !.pc = "graph", !.di = 0]]
        ELSE /\ ops' = [ops EXCEPT ![o] = [@ EXCEPT !.pc = "graph", !.di = 0]]
             /\ UNCHANGED << vectors, nextUuid >>
  /\ UNCHANGED << heap, nodes, structural, graph, passes, log, resp, kgVars >>

\* indexExternalDocuments: one document
DocStep(o) ==
  /\ ops[o].pc = "docs"
  /\ LET docPath == ops[o].externalDocs[ops[o].di]
         content == extractDocumentContent(docPath)
     IN IF content # NoStr
        THEN /\ vectors' = InsertOrReplace(vectors,
                   DocumentVector(nextUuid, ops[o].guidanceId, docPath, content))
             /\ nextUuid' = nextUuid + 1
        ELSE UNCHANGED << vectors, nextUuid >>
  /\ ops' = [ops EXCEPT ![o] =
               IF ops[o].di < Len(ops[o].externalDocs)
               THEN [@ EXCEPT !.di = @ + 1]
               ELSE [@ EXCEPT !.pc = "graph", !.di = 0]]
  /\ UNCHANGED << heap, nodes, structural, graph, passes, log, resp, kgVars >>

\* the ids of the rows of a table
Ids(table) == { table[k].id : k \in 1..Len(table) }

\* buildKnowledgeGraph goes on from pair: addRelation of the pair, or the end
\* of the loops and of indexGuidance
RelateOrFinish(o, op, pair) ==
  IF pair = << 0, 0 >>
  THEN /\ ops' = [ops EXCEPT ![o] = IdleOp]
       /\ log' = Append(log,
             [guidanceId |-> op.guidanceId, codebasePath |-> op.codebasePath,
              externalDocs |-> op.externalDocs,
              vectorIds |-> Ids(vectors), structuralIds |-> Ids(structural),
              graphIds |-> Ids(graph)])
       /\ UNCHANGED << graph, nextUuid >>
  ELSE /\ graph' = InsertOrReplace(graph,
             Relation(nextUuid, op.gsnap[pair[1]].id, op.gsnap[pair[2]].id, "similar",
                      calculateSimilarity(op.gsnap[pair[1]].embedding,
                                          op.gsnap[pair[2]].embedding)))
       /\ nextUuid' = nextUuid + 1
       /\ ops' = [ops EXCEPT ![o] = [op EXCEPT !.pc = "edges", !.gi = pair[1], !.gj = pair[2]]]
       /\ UNCHANGED log

\* buildKnowledgeGraph: getVectorsByGuidance and the loops up to the first
\* addRelation
GraphStep(o) ==
  /\ ops[o].pc = "graph"
  /\ LET vs == getVectorsByGuidance(vectors, ops[o].guidanceId)
     IN RelateOrFinish(o, [ops[o] EXCEPT !.gsnap = vs], NextSimilarPair(vs, 1, 2))
  /\ UNCHANGED << heap, nodes, vectors, structural, passes, resp, kgVars >>

\* buildKnowledgeGraph: the loops up to the next addRelation
EdgeStep(o) ==
  /\ ops[o].pc = "edges"
  /\ LET n == Len(ops[o].gsnap)
         p == NextPair(ops[o].gi, ops[o].gj, n)
     IN RelateOrFinish(o, ops[o], NextSimilarPair(ops[o].gsnap, p[1], p[2]))
  /\ UNCHANGED << heap, nodes, vectors, structural, passes, resp, kgVars >>

\* Search keeping the embedding of the query in the vectors table
SearchStoringQuery ==
  \E params \in ParamSet :
     /\ AllIdle
     /\ resp' = << [params |-> params,
                    results |-> search(B, vectors, structural, graph, params)] >>
     /\ vectors' = InsertOrReplace(vectors,
           [DocumentVector(nextUuid, None, NoStr, params.query) EXCEPT !.type = "reference"])
     /\ nextUuid' = nextUuid + 1
     /\ UNCHANGED << heap, nodes, structural, graph, ops, passes, log, kgVars >>

\* a call of search
Search ==
  \E params \in ParamSet :
     /\ AllIdle
     /\ resp' = << [params |-> params,
                    results |-> search(B, vectors, structural, graph, params)] >>
     /\ UNCHANGED << heap, nodes, vectors, structural, graph, nextUuid, ops, passes, log, kgVars >>

\* the caller has taken the answer of search
Return ==
  /\ resp # NoResp
  /\ resp' = NoResp
  /\ UNCHANGED << heap, nodes, vectors, structural, graph, nextUuid, ops, passes, log, kgVars >>

\* The process ends and a new one opens the same database file: the node map
\* of the new HierarchicalRAG is empty.
Restart ==
  /\ AllIdle
  /\ nodes # <<>>
  /\ heap' = <<>>
  /\ nodes' = <<>>
  /\ UNCHANGED << vectors, structural, graph, nextUuid, ops, passes, log, resp, kgVars >>

Step(o) ==
  \/ ScanStep(o)
  \/ AnalyzeBegin(o)
  \/ ReadStep(o)
  \/ RelStep(o)
  \/ SnapStep(o)
  \/ VecStep(o)
  \/ StrStep(o)
  \/ NextStep(o)
  \/ DocStep(o)
  \/ GraphStep(o)
  \/ EdgeStep(o)

Next ==
  \/ StartIndex
  \/ \E o \in Slots : Step(o)
  \/ Search
  \/ Return
  \/ Restart

Spec == Init /\ [][Next]_vars

----------------------------------------------------------------------------
(* Two calls of indexGuidance on different collections whose steps          *)
(* interleave at their awaits                                               *)

\* what the two concurrent calls are given, by slot
ConcInput ==
  (1 :> [guidanceId |-> "g1", codebasePath |-> S_c, externalDocs |-> << S_x_md >>]) @@
  (2 :> [guidanceId |-> "g2", codebasePath |-> S_d, externalDocs |-> <<>>])

\* a call of indexGuidance while another may be in progress
StartConcurrent ==
  \E o \in Slots :
     /\ resp = NoResp
     /\ \A k \in 1..Len(log) : log[k].guidanceId # ConcInput[o].guidanceId
     /\ BeginIndex(o, ConcInput[o].guidanceId, ConcInput[o].codebasePath,
                   ConcInput[o].externalDocs)

NextConc ==
  \/ StartConcurrent
  \/ \E o \in Slots : Step(o)

SpecConc == Init /\ [][NextConc]_vars

\* what two concurrent calls on one collection are given, by slot
SameInput ==
  (1 :> [guidanceId |-> "g1", codebasePath |-> S_c, externalDocs |-> << S_x_md >>]) @@
  (2 :> [guidanceId |-> "g1", codebasePath |-> S_d, externalDocs |-> <<>>])

\* a call of indexGuidance on the collection while the other call on it may
\* be in progress
StartSame ==
  \E o \in Slots :
     /\ resp = NoResp
     /\ \A k \in 1..Len(log) : log[k].codebasePath # SameInput[o].codebasePath
     /\ BeginIndex(o, SameInput[o].guidanceId, SameInput[o].codebasePath,
                   SameInput[o].externalDocs)

NextSame ==
  \/ StartSame
  \/ \E o \in Slots : Step(o)

SpecSame == Init /\ [][NextSame]_vars

----------------------------------------------------------------------------
(* Calls of indexGuidance on directories and documents that fail            *)

\* the (codebasePath, externalDocs) with a directory, a file or a document
\* that cannot be read
FaultyInputs ==
  { << S_e, << S_a \o S_x_md, S_x_md, S_b \o S_x_md, S_z_bin, S_y_md >> >>,
    << S_h, <<>> >> }

StartFaulty ==
  \E g \in Guidances, in \in FaultyInputs :
     /\ AllIdle
     /\ BeginIndex(1, g, in[1], in[2])

NextErr ==
  \/ StartFaulty
  \/ \E o \in Slots : Step(o)

SpecErr == Init /\ [][NextErr]_vars

\* the directories the tools are pointed at: /r, its src, /q which does not
\* exist, q in the denied /ro, and the file /r/README
Roots == { << << 114 >> >>, << << 114 >>, << 115, 114, 99 >> >>, << << 113 >> >>, << << 114, 111 >>, << 113 >> >>, << << 114 >>, << 82, 69, 65, 68, 77, 69 >> >> }

\* the arguments a tool is called with: each required one in turn missing,
\* empty, a number, or a string
ToolArgs(name) ==
  CASE name = "setup" ->
         { [NoArgs EXCEPT !.rootDirectory = x] :
             x \in { Undefined, Num, Str(<< >>) } \cup { Str(q) : q \in Roots } }
    [] name = "generate" ->
         { [NoArgs EXCEPT !.targetFolder = x] :
             x \in { Undefined, Num, Str(<< >>), Str(<< << 114 >> >>), Str(<< << 113 >> >>) } }
    [] name = "update" ->
         { [NoArgs EXCEPT !.gitDiff = x] : x \in { Undefined, Num, Str(<< >>), Str(<< << 114 >> >>) } }
    [] name = "private-knowledge" ->
         { [NoArgs EXCEPT !.rootDirectory = Str(q), !.purpose = x] :
             q \in { << << 114 >> >>, << << 113 >> >> }, x \in { Undefined, Num, Str(<< >>), Str(<< << 112 >> >>) } }
         \cup { [NoArgs EXCEPT !.rootDirectory = x, !.purpose = Str(<< << 112 >> >>)] :
                  x \in { Undefined, Num, Str(<< >>) } }
    [] name = "clear" ->
         { [NoArgs EXCEPT !.rootDirectory = x] :
             x \in { Undefined, Str(<< << 114 >> >>), Str(<< << 114 >>, << 115, 114, 99 >> >>), Str(<< << 113 >> >>) } }
    [] OTHER -> { NoArgs }

\* the run a call starts from
Run == [disk |-> disk, ok |-> TRUE, io |-> 0, kg |-> knowledgeGraph]

\* a call is over: its outcome is recorded
Complete(via, name, args, r) ==
  /\ disk' = r.disk
  /\ knowledgeGraph' = r.kg
  /\ calls' = Append(calls, [via |-> via, name |-> name, args |-> args, ok |-> r.ok,
                             io |-> r.io, before |-> disk, after |-> r.disk])
  /\ UNCHANGED << ragVars, tree, cli >>

\* a client calls a tool of the server
CallTool ==
  /\ Len(calls) < MaxCalls
  /\ \E name \in { "setup", "generate", "update", "private-knowledge", "clear", "other" } :
       \E args \in ToolArgs(name) :
         /\ Complete("tool", name, args, callTool(Run, name, args))
         /\ UNCHANGED proc

\* the arguments yargs accepts for a command: the required positionals are
\* strings that are not empty
Parsed(command, argv) ==
  CASE command = "setup" -> argv.rootDirectory.t = "string" /\ argv.rootDirectory.v # << >>
    [] command = "generate" -> argv.targetFolder.t = "string" /\ argv.targetFolder.v # << >>
    [] command = "update" -> argv.gitDiff.t = "string" /\ argv.gitDiff.v # << >>
    [] command = "private-knowledge" ->
         /\ argv.rootDirectory.t = "string" /\ argv.rootDirectory.v # << >>
         /\ argv.purpose.t = "string" /\ argv.purpose.v # << >>
    [] command = "clear" -> argv.rootDirectory.t \in { "string", "undefined" }

\* the program is run from the command line
RunCLI ==
  /\ Len(calls) < MaxCalls
  /\ \E command \in { "setup", "generate", "update", "private-knowledge", "clear" } :
       \E argv \in ToolArgs(command) :
         /\ Parsed(command, argv)
         /\ Complete("cli", command, argv, runCLI(Run, command, argv))
         /\ UNCHANGED proc

NextKg ==
  \/ CallTool
  \/ RunCLI

SpecKg == Init /\ [][NextKg]_vars

----------------------------------------------------------------------------
(* A process of index.ts from its launch: the module is loaded, which       *)
(* parses the command line, then main runs the command or starts the server *)

\* the program is launched: with no argument (command "none") or with a
\* command and positionals that are absent or strings, from a terminal or not
Launch ==
  /\ proc.pc = "none"
  /\ Len(calls) < MaxCalls
  /\ \E command \in { "none", "setup", "generate", "update", "private-knowledge", "clear" } :
       \E argv \in ToolArgs(command) :
         \E isTTY \in BOOLEAN :
           /\ \A x \in { argv.rootDirectory, argv.targetFolder, argv.gitDiff, argv.purpose } :
                 x.t = "undefined" \/ (x.t = "string" /\ x.v # << >>)
           /\ proc' = [pc |-> "load", command |-> command, argv |-> argv, isTTY |-> isTTY,
                       code |-> 0]
  /\ knowledgeGraph' = << >>
  /\ UNCHANGED << ragVars, disk, calls, tree, cli >>

\* the module body: yargs(process.argv.slice(2))...demandCommand(1).parseSync().
\* With no command, or with a required positional missing, yargs prints the
\* usage and ends the process with process.exit(1).
ParseArgs ==
  /\ proc.pc = "load"
  /\ proc' = IF proc.command = "none" \/ ~Parsed(proc.command, proc.argv)
             THEN [proc EXCEPT !.pc = "exited", !.code = 1]
             ELSE [proc EXCEPT !.pc = "main"]
  /\ UNCHANGED << ragVars, disk, knowledgeGraph, calls, tree, cli >>

\* main: runCLI when stdin is a terminal or there are arguments, else
\* startServer, after which the server is connected
Main ==
  /\ proc.pc = "main"
  /\ proc' = IF proc.isTTY \/ proc.command # "none"
             THEN [proc EXCEPT !.pc = "cli"]
             ELSE [proc EXCEPT !.pc = "connected"]
  /\ UNCHANGED << ragVars, disk, knowledgeGraph, calls, tree, cli >>

\* runCLI in the process: the command runs, and the process ends with code 1
\* after process.exit(1), with code 0 otherwise
CliRun ==
  /\ proc.pc = "cli"
  /\ LET r == IF proc.command = "none" THEN [Run EXCEPT !.ok = FALSE]
              ELSE runCLI(Run, proc.command, proc.argv)
     IN /\ Complete("cli", proc.command, proc.argv, r)
        /\ proc' = [proc EXCEPT !.pc = "exited", !.code = IF r.ok THEN 0 ELSE 1]

\* the process is gone
Reap ==
  /\ proc.pc = "exited"
  /\ proc' = NoProc
  /\ UNCHANGED << ragVars, disk, knowledgeGraph, calls, tree, cli >>

NextLaunch ==
  \/ Launch
  \/ ParseArgs
  \/ Main
  \/ CliRun
  \/ Reap

SpecLaunch == Init /\ [][NextLaunch]_vars

----------------------------------------------------------------------------
(* A process that works on one KnowledgeTree through addNode                *)

\* objects of knowledge-tree.ts constructed in one run
MaxNodes == 4

NodeNames == { "a", "b", "project_root" }

\* knowledgeTree.addNode(data, parentName), which may throw
AddNode ==
  /\ Len(tree.objs) < MaxNodes
  /\ \E name \in NodeNames, parentName \in NodeNames \cup { None } :
       tree' = addNode(tree, name, parentName)
  /\ UNCHANGED << ragVars, disk, knowledgeGraph, calls, proc, cli >>

\* the tool build: a new KnowledgeTree with the node project_root
BuildTool ==
  /\ Len(tree.objs) < MaxNodes
  /\ tree' = addNode(NewTree(tree.objs), "project_root", None)
  /\ UNCHANGED << ragVars, disk, knowledgeGraph, calls, proc, cli >>

NextTree ==
  \/ AddNode
  \/ BuildTool

SpecTree == Init /\ [][NextTree]_vars

----------------------------------------------------------------------------
(* A process that works on KnowledgeTreeNode objects directly               *)

\* entries in the children arrays of all objects together
MaxLinks == 3

RECURSIVE Links(_, _)
Links(objs, k) == IF k = 0 THEN 0 ELSE Len(objs[k].children) + Links(objs, k - 1)

\* new KnowledgeTreeNode(data)
CreateNode ==
  /\ Len(tree.objs) < MaxNodes
  /\ \E name \in NodeNames :
       /\ \A k \in 1..Len(tree.objs) : tree.objs[k].name # name
       /\ tree' = [tree EXCEPT !.objs = Append(@, KnowledgeTreeNode(name))]
  /\ UNCHANGED << ragVars, disk, knowledgeGraph, calls, proc, cli >>

\* this.addChild(child) for two objects, the same one twice included
AddChild ==
  /\ \E this, child \in 1..Len(tree.objs) :
       /\ Links(tree.objs, Len(tree.objs)) < MaxLinks
       /\ tree' = [tree EXCEPT !.objs = addChild(@, this, child)]
  /\ UNCHANGED << ragVars, disk, knowledgeGraph, calls, proc, cli >>

\* this.removeChild(child)
RemoveChild ==
  /\ \E this, child \in 1..Len(tree.objs) :
       tree' = [tree EXCEPT !.objs = removeChild(@, this, child)]
  /\ UNCHANGED << ragVars, disk, knowledgeGraph, calls, proc, cli >>

NextNodes ==
  \/ CreateNode
  \/ AddChild
  \/ RemoveChild

SpecNodes == Init /\ [][NextNodes]_vars

----------------------------------------------------------------------------
(* Runs of the knowledge-tree CLI, one command each, on the disk            *)

\* args[0] of a command: directories, a file and a path that does not exist
TargetPaths ==
  { q \in InitDisk.dirs : Len(q) >= 1 } \cup
  { << << 114 >>, << 82, 69, 65, 68, 77, 69 >> >>, << << 113 >> >> }

Manager == [disk |-> disk, ok |-> TRUE, processed |-> {}, updated |-> << >>]

\* the command is over: process.exit(1) when the method has thrown
Finish(command, targetPath, m) ==
  /\ disk' = m.disk
  /\ cli' = [command |-> command, targetPath |-> targetPath, ok |-> m.ok,
             updated |-> m.updated]
  /\ UNCHANGED << ragVars, knowledgeGraph, calls, proc, tree >>

\* knowledge-tree new <path>
NewCommand ==
  \E targetPath \in TargetPaths :
    Finish("new", targetPath, createAllKnowledgeNodes(Manager, targetPath))

\* knowledge-tree build <path>
BuildCommand ==
  \E targetPath \in TargetPaths :
    Finish("build", targetPath, buildKnowledgeTree(Manager, targetPath))

\* knowledge-tree remove <path>
RemoveCommand ==
  \E targetPath \in TargetPaths :
    Finish("remove", targetPath, removeAllKnowledgeNodes(Manager, targetPath))

NextCli ==
  \/ NewCommand
  \/ BuildCommand
  \/ RemoveCommand

SpecCli == Init /\ [][NextCli]_vars

----------------------------------------------------------------------------
(* buildHierarchy and indexGuidance run to completion without interleaving  *)

RECURSIVE ScanAll(_, _)
ScanAll(b, stack) ==
  IF stack = <<>> THEN b
  ELSE ScanAll(ScanEntry(b, stack).b, ScanEntry(b, stack).stack)

RECURSIVE AnalyzeAll(_, _)
AnalyzeAll(b, from) ==
  IF NextFile(b, from) = 0 THEN b
  ELSE AnalyzeAll(AnalyzeFile(b, b.nodes[NextFile(b, from)]), NextFile(b, from) + 1)

buildHierarchy(b, rootPath) ==
  buildRelationships(
    AnalyzeAll(ScanAll(b, PopFinished(EnterDirectory(<<>>, rootPath, NoStr))), 1))

EmptyB == [heap |-> <<>>, nodes |-> <<>>]

\* what a vector row says of the item it was made from
Item(r) == << r.type, r.source, r.content, r.hierarchy >>

\* the items of the vector rows that indexGuidance(g, codebasePath,
\* externalDocs) writes when it runs alone in a new process
AloneItems(codebasePath, externalDocs) ==
  LET b == IF codebasePath = NoStr THEN EmptyB ELSE buildHierarchy(EmptyB, codebasePath)
  IN { Item(CodebaseVector(b, 0, None, b.nodes[k])) :
          k \in { j \in 1..Len(b.nodes) : b.heap[b.nodes[j]].content # NoStr } }
     \cup
     { Item(DocumentVector(0, None, externalDocs[k], extractDocumentContent(externalDocs[k]))) :
          k \in { j \in 1..Len(externalDocs) : extractDocumentContent(externalDocs[j]) # NoStr } }

\* path lies below the directory root
IsUnder(path, root) == OccursAt(path, root \o Slash, 1)

----------------------------------------------------------------------------
(* Claims                                                                   *)

SameInputs(c1, c2) ==
  /\ c1.guidanceId = c2.guidanceId
  /\ c1.codebasePath = c2.codebasePath
  /\ c1.externalDocs = c2.externalDocs

\* C1: a call of indexGuidance that follows a call with the same collection,
\* codebasePath and documents leaves the same sets of vector, structural and
\* graph record ids as the first call left.
C1_ReindexSameIds ==
  \A k \in 2..Len(log) :
     SameInputs(log[k - 1], log[k]) =>
        /\ log[k].vectorIds = log[k - 1].vectorIds
        /\ log[k].structuralIds = log[k - 1].structuralIds
        /\ log[k].graphIds = log[k - 1].graphIds

\* C2: the nodes that indexCodebase gets from getAllNodes() after
\* buildHierarchy(codebasePath) all lie below codebasePath, so that it stores
\* records only for nodes of the codebase it was given.
C2_OnlyNodesOfThisPass ==
  \A o \in Slots :
     ops[o].pc \in {"vec", "str", "next"} =>
        \A k \in 1..Len(ops[o].snap) :
           IsUnder(heap[ops[o].snap[k]].path, ops[o].codebasePath)

\* C3: when a call of indexGuidance that interleaved with a call on another
\* collection has completed, its collection holds exactly the vector records
\* the call would have written alone, one structural record per codebase
\* vector record, and no record made from a node outside its codebasePath.
C3_ConcurrentCollectionsIsolated ==
  \A k \in 1..Len(log) :
     LET c == log[k]
         mine == getVectorsByGuidance(vectors, c.guidanceId)
         alone == AloneItems(c.codebasePath, c.externalDocs)
     IN /\ { Item(mine[i]) : i \in 1..Len(mine) } = alone
        /\ Len(mine) = Cardinality(alone)
        /\ Len(SelectSeq(structural, LAMBDA r : r.guidance_id = c.guidanceId))
             = Len(SelectSeq(mine, LAMBDA r : r.type = "codebase"))
        /\ \A i \in 1..Len(mine) :
              mine[i].type = "codebase" => IsUnder(mine[i].source, c.codebasePath)

\* C4: the knowledge graph holds at most one edge per unordered pair of vector
\* records and no edge from a record to itself.
C4_OneEdgePerPair ==
  /\ \A i, j \in 1..Len(graph) :
        i # j => { graph[i].source_id, graph[i].target_id }
                   # { graph[j].source_id, graph[j].target_id }
  /\ \A i \in 1..Len(graph) : graph[i].source_id # graph[i].target_id

\* the positions in the node map of the nodes without parentId
Parentless == { k \in 1..Len(nodes) : heap[nodes[k]].parentId = NoStr }

NoDanglingParent ==
  \A k \in 1..Len(nodes) :
     heap[nodes[k]].parentId # NoStr => MapGet(B, heap[nodes[k]].parentId) # 0

BuiltRoots ==
  { ops[o].codebasePath : o \in Slots } \cup { log[k].codebasePath : k \in 1..Len(log) }

RespVector ==
  vectorSearch(vectors, resp[1].params.query, resp[1].params.guidanceId,
               resp[1].params.type, CandidateLimit(resp[1].params.limit))
RespStructural ==
  structuralSearch(B, structural, resp[1].params.query, resp[1].params.guidanceId,
                   resp[1].params.type, CandidateLimit(resp[1].params.limit))

\* what a result says of the item it stands for
ResultItem(r) == << r.source, r.content, r.hierarchy >>

\* C6: an indexed item that is a candidate of the vector and of the
\* structural strategy occurs once in the answer of search, with both
\* relevance tags and the larger of its two weighted scores.
C6_MergedOnce ==
  resp # NoResp =>
     \A i \in 1..Len(resp[1].results) :
        LET r == resp[1].results[i] IN
        \A v \in 1..Len(RespVector), t \in 1..Len(RespStructural) :
           ( /\ ResultItem(RespVector[v]) = ResultItem(r)
             /\ ResultItem(RespStructural[t]) = ResultItem(r) )
           => /\ \E a, c \in 1..Len(r.relevance) :
                    r.relevance[a] = "vector_similarity" /\ r.relevance[c] = "structural_match"
              /\ r.score = Max(Weighted(RespVector[v].score, VectorWeight),
                               Weighted(RespStructural[t].score, StructuralWeight))
              /\ \A j \in 1..Len(resp[1].results) :
                    j # i => ResultItem(resp[1].results[j]) # ResultItem(r)

\* the fusion of all the rows the two strategies match, none cut off
FusedAll ==
  combineResults(
    vectorSearch(vectors, resp[1].params.query, resp[1].params.guidanceId,
                 resp[1].params.type, Len(vectors)),
    structuralSearch(B, structural, resp[1].params.query, resp[1].params.guidanceId,
                     resp[1].params.type, Len(structural)),
    graphSearch(graph, resp[1].params.query, resp[1].params.guidanceId, Len(graph)))

\* C7: the answer of search is the first `limit` entries, in order, of the
\* fused list of all matches restricted to score >= threshold.
C7_ThresholdThenLimit ==
  resp # NoResp =>
     /\ resp[1].results =
          Slice(SelectSeq(FusedAll, LAMBDA r : r.score >= resp[1].params.threshold),
                resp[1].params.limit)
     /\ \A i \in 1..Len(resp[1].results) :
           resp[1].results[i].score >= resp[1].params.threshold
     /\ Len(resp[1].results) <= resp[1].params.limit

\* a search whose strategies cut candidates off, whose threshold removes a
\* fused entry and whose limit removes another
C7_Witness ==
  /\ resp # NoResp
  /\ Len(VectorRows(vectors, resp[1].params.guidanceId, resp[1].params.type))
       > CandidateLimit(resp[1].params.limit)
  /\ \E i \in 1..Len(FusedAll) : FusedAll[i].score < resp[1].params.threshold
  /\ Len(SelectSeq(FusedAll, LAMBDA r : r.score >= resp[1].params.threshold))
       > resp[1].params.limit
  /\ Len(resp[1].results) = resp[1].params.limit

\* C8: the answer of search is the answer of an engine with the same tables
\* and an empty node map.
C8_AnswerFromStoreOnly ==
  resp # NoResp =>
     resp[1].results = search(EmptyB, vectors, structural, graph, resp[1].params)

\* C9: a call of search leaves the three tables and the node map as they were.
C9_SearchChangesNothing ==
  [][ (resp = NoResp /\ resp' # NoResp)
        => UNCHANGED << heap, nodes, vectors, structural, graph >> ]_vars

\* a search has answered with results from a store with nodes, vector rows,
\* structural rows and edges
C9_Witness ==
  /\ resp # NoResp
  /\ resp[1].results # <<>>
  /\ nodes # <<>>
  /\ vectors # <<>>
  /\ structural # <<>>
  /\ graph # <<>>

\* C10: with a type filter other than 'all', every result has that type.
C10_ResultsHaveFilterType ==
  (resp # NoResp /\ resp[1].params.type # "all") =>
     \A i \in 1..Len(resp[1].results) : resp[1].results[i].type = resp[1].params.type

\* the collection g has been indexed by exactly one pass, which has completed
FirstPassDone(g) ==
  /\ Len(SelectSeq(log, LAMBDA c : c.guidanceId = g)) = 1
  /\ \A o \in Slots : ops[o].guidanceId # g

\* the edges between the vector records a and b, in either direction
EdgesBetween(a, b) ==
  SelectSeq(graph, LAMBDA e : { e.source_id, e.target_id } = { a, b })

AnswerAt(t) ==
  search(B, vectors, structural, graph, [resp[1].params EXCEPT !.threshold = t])

\* C12: on the same store and with the same query, collection, type and
\* limit, a search with a higher threshold returns no more results.
C12_ThresholdMonotone ==
  resp # NoResp =>
     \A t \in Thresholds :
        t >= resp[1].params.threshold => Len(AnswerAt(t)) <= Len(resp[1].results)

\* a search has answered and a higher threshold leaves fewer results, not none
C12_Witness ==
  /\ resp # NoResp
  /\ \E t \in Thresholds :
        /\ t > resp[1].params.threshold
        /\ Len(AnswerAt(t)) < Len(resp[1].results)
        /\ Len(AnswerAt(t)) > 0

\* C13: the results of one answer of search are in non-increasing order of
\* score.
C13_ScoresNonIncreasing ==
  resp # NoResp =>
     \A i \in 1..(Len(resp[1].results) - 1) :
        resp[1].results[i].score >= resp[1].results[i + 1].score

\* an answer with results of the vector and of the structural strategy and
\* with different scores
C13_Witness ==
  /\ resp # NoResp
  /\ \E i, j \in 1..Len(resp[1].results) :
        /\ resp[1].results[i].score > resp[1].results[j].score
        /\ resp[1].results[i].relevance # resp[1].results[j].relevance

\* the collection guidanceId holds the vector record of the document docPath
DocIndexed(guidanceId, docPath) ==
  \E k \in 1..Len(vectors) :
     /\ vectors[k].guidance_id = guidanceId
     /\ vectors[k].type = "external_doc"
     /\ vectors[k].source = docPath
     /\ vectors[k].content = FileText(docPath)

\* the document can be read, has a supported extension and is not empty
DocHasContent(docPath) ==
  /\ ToLower(ExtName(docPath)) \in { <<46, 109, 100>>, <<46, 116, 120, 116>> }
  /\ CanReadFile(docPath)
  /\ FileText(docPath) # <<>>

\* C14: a document that cannot be read or has an unsupported extension is
\* skipped: every document of the list that has content gets its vector
\* record, whichever documents come before it, the skipped ones get none,
\* and the pass goes on to the graph step, which links the records of
\* documents with the same content.
C14_FailedDocumentSkipped ==
  /\ \A o \in Slots :
        ops[o].pc = "docs" =>
           \A d \in 1..(ops[o].di - 1) :
              DocHasContent(ops[o].externalDocs[d])
                 => DocIndexed(ops[o].guidanceId, ops[o].externalDocs[d])
  /\ \A k \in 1..Len(log) :
        \A d \in 1..Len(log[k].externalDocs) :
           LET docPath == log[k].externalDocs[d] IN
           /\ DocHasContent(docPath) <=> DocIndexed(log[k].guidanceId, docPath)
           /\ ~DocHasContent(docPath) =>
                 \A v \in 1..Len(vectors) : vectors[v].source # docPath
           /\ \A e \in 1..Len(log[k].externalDocs) :
                 LET other == log[k].externalDocs[e] IN
                 ( /\ d < e
                   /\ DocHasContent(docPath) /\ DocHasContent(other)
                   /\ FileText(docPath) = FileText(other) )
                 => \E g \in 1..Len(graph), v, w \in 1..Len(vectors) :
                       /\ vectors[v].source = docPath /\ vectors[w].source = other
                       /\ graph[g].source_id = vectors[v].id
                       /\ graph[g].target_id = vectors[w].id

\* a pass has completed whose list holds a document that cannot be read and
\* one with an unsupported extension, each followed by a document that was
\* indexed
C14_Witness ==
  \E k \in 1..Len(log) :
     \E d1, d2, d3, d4 \in 1..Len(log[k].externalDocs) :
        /\ d1 < d2 /\ d3 < d4
        /\ ~CanReadFile(log[k].externalDocs[d1])
        /\ DocIndexed(log[k].guidanceId, log[k].externalDocs[d2])
        /\ CanReadFile(log[k].externalDocs[d3])
        /\ extractDocumentContent(log[k].externalDocs[d3]) = NoStr
        /\ FileText(log[k].externalDocs[d3]) # NoStr
        /\ DocIndexed(log[k].guidanceId, log[k].externalDocs[d4])
        /\ graph # <<>>

\* the directories buildHierarchy has been called on and has returned from
ReturnedRoots ==
  { ops[o].codebasePath : o \in { s \in Slots : ops[s].pc \notin {"idle", "scan", "read", "rel"} } }
  \cup { log[k].codebasePath : k \in 1..Len(log) }

\* the node map holds the node of the path
HasNode(path) == MapGet(B, generateNodeId(path)) # 0

\* the directory dirPath lies in the tree of root and can be read
ScannedDir(dirPath, root) ==
  /\ dirPath = root \/ IsUnder(dirPath, root)
  /\ CanReadDir(dirPath)

\* the entry of dirPath has its node when it is a directory or a code file
\* whose stat succeeds
EntryHasNode(dirPath, entry) ==
  LET fullPath == PathJoin(dirPath, entry.name)
  IN IF entry.isDirectory THEN HasNode(fullPath)
     ELSE (isCodeFile(entry.name) /\ CanStat(fullPath)) => HasNode(fullPath)

\* C15: when buildHierarchy has returned, every directory that holds a
\* directory that cannot be read has the nodes of all its entries, and the
\* readable directories among them have the nodes of theirs.
C15_UnreadableDirSkipped ==
  \A root \in ReturnedRoots \ {NoStr} :
     \A dirPath \in DOMAIN FsDirs :
        ( /\ ScannedDir(dirPath, root)
          /\ \E i \in 1..Len(FsDirs[dirPath].entries) :
                /\ FsDirs[dirPath].entries[i].isDirectory
                /\ ~CanReadDir(PathJoin(dirPath, FsDirs[dirPath].entries[i].name)) )
        => \A i \in 1..Len(FsDirs[dirPath].entries) :
              LET entry == FsDirs[dirPath].entries[i]
                  fullPath == PathJoin(dirPath, entry.name)
              IN /\ EntryHasNode(dirPath, entry)
                 /\ (entry.isDirectory /\ CanReadDir(fullPath)) =>
                       \A j \in 1..Len(FsDirs[fullPath].entries) :
                          EntryHasNode(fullPath, FsDirs[fullPath].entries[j])

\* a build has returned from a directory whose first entry is a directory
\* that cannot be read, with the nodes of a file and of a directory after it
C15_Witness ==
  \E root \in ReturnedRoots \ {NoStr} :
     /\ CanReadDir(root)
     /\ FsDirs[root].entries[1].isDirectory
     /\ ~CanReadDir(PathJoin(root, FsDirs[root].entries[1].name))
     /\ \E i, j \in 2..Len(FsDirs[root].entries) :
           /\ FsDirs[root].entries[i].isDirectory
           /\ ~FsDirs[root].entries[j].isDirectory
           /\ HasNode(PathJoin(root, FsDirs[root].entries[i].name))
           /\ HasNode(PathJoin(root, FsDirs[root].entries[j].name))

\* C16: when buildHierarchy has returned, every entry of every directory it
\* could read has its node when it is a directory or a code file whose stat
\* succeeds, whatever happened to the other files of the directory.
C16_FileErrorLocal ==
  \A root \in ReturnedRoots \ {NoStr} :
     \A dirPath \in DOMAIN FsDirs :
        ScannedDir(dirPath, root) =>
           \A i \in 1..Len(FsDirs[dirPath].entries) :
              EntryHasNode(dirPath, FsDirs[dirPath].entries[i])

\* the argument of call c that its tool requires under the name param
RequiredOf(c) ==
  CASE c.name = "setup" -> { c.args.rootDirectory }
    [] c.name = "generate" -> { c.args.targetFolder }
    [] c.name = "update" -> { c.args.gitDiff }
    [] c.name = "private-knowledge" -> { c.args.rootDirectory, c.args.purpose }
    [] OTHER -> {}

\* call c went to the tool handler with a required argument missing or not a string
LacksRequired(c) == c.via = "tool" /\ \E x \in RequiredOf(c) : x.t # "string"

\* C17: every tool call whose required parameter is missing or is not a
\* string (rootDirectory of setup, targetFolder of generate, gitDiff of
\* update, rootDirectory and purpose of private-knowledge) is answered with
\* isError, and no file-system call has been made and the disk is as before
C17_InvalidParameterRejected ==
  \A k \in 1..Len(calls) :
    LacksRequired(calls[k])
      => ~calls[k].ok /\ calls[k].io = 0 /\ calls[k].after = calls[k].before

\* generate has been called with a number for targetFolder and update
\* without gitDiff, and both calls were answered with isError
C17_Witness ==
  /\ Len(calls) = 2
  /\ LacksRequired(calls[1]) /\ calls[1].name = "generate" /\ calls[1].args.targetFolder = Num
  /\ LacksRequired(calls[2]) /\ calls[2].name = "update" /\ calls[2].args.gitDiff = Undefined
  /\ ~calls[1].ok /\ ~calls[2].ok

\* the directories named .knowledge-root, .knowledge-node or .my-knowledge
\* that disk d has below directory root
KnowledgeDirs(d, root) ==
  { q \in d.dirs : /\ Len(q) > Len(root)
                   /\ SubSeq(q, 1, Len(root)) = root
                   /\ Basename(q) \in { KnowledgeRootName, KnowledgeNodeName, MyKnowledgeName } }

\* calls k and k + 1 are setup(root) and clear(root), both successful
SetupThenClear(k) ==
  /\ k + 1 <= Len(calls)
  /\ calls[k].name = "setup" /\ calls[k].ok
  /\ calls[k + 1].name = "clear" /\ calls[k + 1].ok
  /\ calls[k + 1].args.rootDirectory = calls[k].args.rootDirectory

\* C18: after setup(root) followed by clear(root) no directory named
\* .knowledge-root, .knowledge-node or .my-knowledge remains below root
C18_SetupClearLeavesNothing ==
  \A k \in 1..Len(calls) :
    SetupThenClear(k)
      => KnowledgeDirs(calls[k + 1].after, calls[k].args.rootDirectory.v) = {}

\* the directory a call of clear works on
TargetOf(c) == IF Falsy(c.args.rootDirectory) THEN Cwd ELSE c.args.rootDirectory.v

\* path q of disk d, below root, lies in a directory with one of the three
\* names that no directory of skipDirs holds
InKnowledgeDir(d, root, q) ==
  /\ SubSeq(q, 1, Len(root)) = root
  /\ \E k \in (Len(root) + 1)..Len(q) :
       /\ q[k] \in { KnowledgeRootName, KnowledgeNodeName, MyKnowledgeName }
       /\ SubSeq(q, 1, k) \in d.dirs
       /\ \A j \in (Len(root) + 1)..(k - 1) : q[j] \notin skipDirs

\* C19: clear(root) creates nothing, and whatever it removes is a directory
\* below root named .knowledge-root, .knowledge-node or .my-knowledge, or
\* lies in one, and is not inside a directory of skipDirs
C19_ClearRemovesOnlyKnowledgeDirs ==
  \A k \in 1..Len(calls) :
    LET c == calls[k]
    IN c.name = "clear"
         => /\ c.after.dirs \subseteq c.before.dirs
            /\ c.after.files \subseteq c.before.files
            /\ \A q \in (c.before.dirs \cup c.before.files) \ (c.after.dirs \cup c.after.files) :
                 InKnowledgeDir(c.before, TargetOf(c), q)

\* a clear has removed knowledge directories and has left those that
\* node_modules holds
C19_Witness ==
  \E k \in 1..Len(calls) :
    LET c == calls[k]
    IN /\ c.name = "clear" /\ c.ok
       /\ c.after.dirs # c.before.dirs
       /\ \E q \in KnowledgeDirs(c.after, TargetOf(c)) :
            \E j \in 1..Len(q) : q[j] \in skipDirs

\* C20: setup on a root directory that does not exist fails
C20_SetupOfMissingRootFails ==
  \A k \in 1..Len(calls) :
    LET c == calls[k]
    IN (c.name = "setup" /\ c.args.rootDirectory.t = "string"
          /\ c.args.rootDirectory.v # << >>
          /\ c.args.rootDirectory.v \notin c.before.dirs \cup c.before.files)
         => ~c.ok

\* the whole-word occurrences in content of the nine words if, else, for,
\* while, switch, case, catch, && and ||
KeywordOccurrences(content) ==
  CountWordsFrom(content, 1) + CountWord(content, << 124, 124 >>)

\* C29: the complexity of an extracted element is 1 plus the number of
\* whole-word occurrences in its text of if, else, for, while, switch, case,
\* catch, && and ||
C29_ComplexityCountsKeywords ==
  \A k \in 1..Len(heap) :
    heap[k].type \in { "function", "class", "interface" }
      => heap[k].complexity = 1 + KeywordOccurrences(heap[k].content)

BothPassesDone == Len(log) = 2 /\ \A o \in Slots : ops[o].pc = "idle"

\* the vector records of collection g
RecordsOf(g) == SelectSeq(vectors, LAMBDA r : r.guidance_id = g)

\* C25: once two interleaved passes on one collection have both completed,
\* every two vector records of the collection whose similarity is greater
\* than 0.7 are linked by at least one edge
C25_LastGraphStepSeesAll ==
  BothPassesDone =>
     LET vs == RecordsOf("g1") IN
     \A i, j \in 1..Len(vs) :
        (i < j /\ calculateSimilarity(vs[i].embedding, vs[j].embedding) > SimilarityThreshold)
           => Len(EdgesBetween(vs[i].id, vs[j].id)) >= 1

\* both passes are over and two similar records are linked of which the pass
\* that ended first had seen only one or none
C25_Witness ==
  /\ BothPassesDone
  /\ LET vs == RecordsOf("g1") IN
     \E i, j \in 1..Len(vs) :
        /\ i < j
        /\ calculateSimilarity(vs[i].embedding, vs[j].embedding) > SimilarityThreshold
        /\ vs[j].id \notin log[1].vectorIds
        /\ Len(EdgesBetween(vs[i].id, vs[j].id)) >= 1

\* C21: a process launched with no command-line argument and with a stdin
\* that is not a terminal does not end before its server is connected
C21_HeadlessLaunchServes ==
  (proc.command = "none" /\ ~proc.isTTY) => proc.pc # "exited"

\* no two nodes of the sequence have the same name
UniqueNames(ns) == \A i, j \in 1..Len(ns) : ns[i].name = ns[j].name => i = j

\* C22: no two nodes of a saved .knowledge-node.json and no two nodes of the
\* knowledge graph in memory have the same name
C22_NodeNamesUnique ==
  /\ UniqueNames(knowledgeGraph)
  /\ \A p \in DOMAIN disk.json : UniqueNames(disk.json[p])

\* the objects reached from the objects in S over at most n steps along children
RECURSIVE Reach(_, _, _)
Reach(objs, S, n) ==
  IF n = 0 THEN S
  ELSE Reach(objs, S \cup UNION { { objs[p].children[k] : k \in 1..Len(objs[p].children) } : p \in S }, n - 1)

\* the nodes of the tree: those reached from root
TreeNodes(t) == Reach(t.objs, { t.root }, Len(t.objs))

\* C27: after any sequence of addNode calls, those that throw and those
\* that reuse a name included, the node map holds exactly the nodes
\* reachable from root: getSize() is the number of nodes in the tree and
\* findNode(name) is never a node outside the tree.
C27_NodeMapIsTheTree ==
  LET inTree == IF tree.root = 0 THEN {} ELSE TreeNodes(tree)
  IN /\ getSize(tree) = Cardinality(inTree)
     /\ \A name \in NodeNames : findNode(tree, name) # 0 => findNode(tree, name) \in inTree

\* the k-th parent of object n, 0 when the chain of parents ends before
RECURSIVE Up(_, _, _)
Up(objs, n, k) ==
  IF n = 0 \/ k = 0 THEN n ELSE Up(objs, objs[n].parent, k - 1)

\* C28: after any sequence of addChild and removeChild calls every child
\* of a node has that node as its parent, every node occurs in the
\* children of at most one node and at most once, and no node is its own
\* ancestor.
C28_ParentAndChildrenConsistent ==
  LET objs == tree.objs
      N == 1..Len(objs)
      Places(c) == { << n, k >> \in N \X (1..MaxLinks) :
                       k <= Len(objs[n].children) /\ objs[n].children[k] = c }
  IN /\ \A n \in N : \A k \in 1..Len(objs[n].children) :
          objs[objs[n].children[k]].parent = n
     /\ \A c \in N : Cardinality(Places(c)) <= 1
     /\ \A n \in N : \A k \in 1..Len(objs) : Up(objs, n, k) # n

\* directory q lies below directory p
Below(q, p) == Len(q) > Len(p) /\ SubSeq(q, 1, Len(p)) = p

\* C24: a build updates bottom-up: the .knowledge-node.json of a directory
\* is rewritten only after those of its subdirectories that the build
\* rewrites, and no directory is rewritten twice.
C24_BuildIsBottomUp ==
  cli.command = "build" =>
    \A i \in 1..Len(cli.updated) : \A j \in 1..Len(cli.updated) :
      /\ Below(cli.updated[j], cli.updated[i]) => j < i
      /\ cli.updated[j] = cli.updated[i] => j = i

\* C26: buildKnowledgeTree(path) rewrites only .knowledge-node.json files
\* of path and of directories below it.
C26_BuildWritesBelowPathOnly ==
  cli.command = "build" =>
    \A i \in 1..Len(cli.updated) :
      cli.updated[i] = cli.targetPath \/ Below(cli.updated[i], cli.targetPath)

====
